---- MODULE Spec2Model ----
(***************************************************************************)
(* A model of the statistical analysis pipeline of the spreadsheet         *)
(* assistant (backend/routes/agents/statistical.py):                       *)
(*   - the tabular normalizer  StatisticalAgent._create_dataframe_from_raw *)
(*   - the result normalizer   StatisticalAgent._make_serializable         *)
(*   - the pipeline controller StatisticalAgent.analyze and its stages     *)
(*                                                                         *)
(* Text is modelled as a sequence of one-character strings, so that        *)
(* trimming, replacing and searching are computed and not assumed.  A cell *)
(* of a table is a record [t, s]: t is the kind of Python value and s its  *)
(* text (empty for the kinds that carry none).                             *)
(***************************************************************************)
EXTENDS Integers, Sequences, FiniteSets, TLC

VARIABLES
    n_pc,       \* normalizer run: "input" before the call, "returned" after
    n_raw,      \* normalizer run: the raw_data argument
    n_df,       \* normalizer run: the table returned
    n_raised,   \* normalizer run: TRUE iff the call raised
    s_pc,       \* serializer run: "input" before the call, "returned" after
    s_obj,      \* serializer run: the obj argument
    s_out,      \* serializer run: the value returned, Raised when it raised
    s_again,    \* serializer run: what the call returns for its own output
    pc,         \* analyze: the stage the request has completed
    req,        \* analyze: the request
    df,         \* analyze: the normalized table
    profile,    \* analyze: the data profile
    package,    \* analyze: the analysis package of the synthesizer
    result,     \* analyze: analysis_result
    chart_reply, \* analyze: the reply the chart generator received
    charts,     \* analyze: chart_configs
    table_reply, \* analyze: the reply the table generator received (it asks for none)
    tables,     \* analyze: table_configs
    text,       \* analyze: the interpretation
    response,   \* analyze: the response returned to the caller
    failure,    \* analyze: the error surfaced to the caller
    llm_calls,  \* analyze: calls made to the external reasoning capability
    exec_count, \* analyze: synthesized procedures executed
    log,        \* analyze: what was printed to the internal log
    x_in,       \* execute: the table the caller passes to _execute_analysis
    x_heap,     \* execute: the table objects, by reference (0: the caller's)
    x_pc,       \* execute: per call, "ready", "running", "returned", "raised"
    x_ref,      \* execute: per call, the table its scope binds to df
    x_env,      \* execute: per call, the names bound in its execution scope
    x_sm,       \* execute: the module's sm is a module (TRUE) or None (FALSE)
    x_hist,     \* execute: per call, the statements its procedure has run
    x_out,      \* execute: per call, what the call returned or raised
    g_pc,       \* aggregate run: "input" before the call, "returned" after
    g_df,       \* aggregate run: the dataframe argument
    g_group,    \* aggregate run: the group_cols argument
    g_agg,      \* aggregate run: the agg_dict argument
    g_out,      \* aggregate run: [raised, value] of the call
    c_pc,       \* classifier run: "input" before the reply is read, "returned" after
    c_reply,    \* classifier run: the reply of the external capability
    c_tag,      \* classifier run: the category returned
    f_pc,       \* synthesizer run: "input" before the reply is read, "returned" after
    f_text,     \* synthesizer run: the implementation field of the reply
    f_code,     \* synthesizer run: the implementation stored in the package
    p_pc,       \* presentation run: "looping", "returned" or "raised"
    p_stage,    \* presentation run: the stage whose loop runs, "charts"
    p_configs,  \* presentation run: the descriptors of the reply, in order
    p_k,        \* presentation run: the number of descriptors processed
    p_in,       \* presentation run: the table the stage was called with
    p_df,       \* presentation run: that same table object as it is now
    p_out,      \* presentation run: positions of the descriptors emitted so far
    q_pc,       \* profile run: "input" or "returned"
    q_df,       \* profile run: the table profiled
    q_corr,     \* profile run: correlation_data of the profile
    q_insights, \* profile run: the correlation insights, in the order appended
    t_pc,       \* transformation run: the position of analyze
    t_in,       \* transformation run: the setting, the request and the two procedures
    t_attrs,    \* transformation run: the attributes the agent object has
    t_calls,    \* transformation run: calls of the reasoning capability made
    t_execs,    \* transformation run: procedures executed
    t_out,      \* transformation run: what analyze returned or raised
    b_pc,       \* query run: the position of analyze
    b_in,       \* query run: the decision reply and the generated code
    b_should,   \* query run: should_execute_code
    b_result,   \* query run: analysis_result
    b_calls,    \* query run: calls of the reasoning capability made
    b_execs,    \* query run: executions of the generated code
    b_out,      \* query run: what analyze returned
    v_pc,       \* chart shaping run: "input" or "returned"
    v_in,       \* chart shaping run: the implementation, the raw data and the analysis
    v_out       \* chart shaping run: the data points returned

nvars == <<n_pc, n_raw, n_df, n_raised>>
svars == <<s_pc, s_obj, s_out, s_again>>
avars == <<pc, req, df, profile, package, result, chart_reply, charts,
           table_reply, tables, text, response, failure, llm_calls, exec_count, log>>
xvars == <<x_in, x_heap, x_pc, x_ref, x_env, x_sm, x_hist, x_out>>
\* the variables of the runs of the other units
gvars == <<g_pc, g_df, g_group, g_agg, g_out>>
cvars == <<c_pc, c_reply, c_tag>>
fvars == <<f_pc, f_text, f_code>>
pvars == <<p_pc, p_stage, p_configs, p_k, p_in, p_df, p_out>>
evars == <<xvars, gvars, cvars, fvars, pvars>>
qvars == <<q_pc, q_df, q_corr, q_insights>>
tvars == <<t_pc, t_in, t_attrs, t_calls, t_execs, t_out>>
\* the variables of the runs of the units added last
bvars == <<b_pc, b_in, b_should, b_result, b_calls, b_execs, b_out>>
vvars == <<v_pc, v_in, v_out>>
wvars == <<qvars, tvars, bvars, vvars>>
\* what a run of one of these units leaves alone beside its own variables
q_rest == <<nvars, svars, avars, evars, tvars, bvars, vvars>>
t_rest == <<nvars, svars, avars, evars, qvars, bvars, vvars>>
b_rest == <<nvars, svars, avars, evars, qvars, tvars, vvars>>
v_rest == <<nvars, svars, avars, evars, qvars, tvars, bvars>>
vars == <<nvars, svars, avars, evars, wvars>>

(***************************************************************************)
(* Bounds of the model.                                                    *)
(***************************************************************************)
\* the most data rows (or records) a raw table carries
MaxRows == 2
\* the deepest nesting of containers in a value handed to the serializer
MaxDepth == 2
\* the most descriptors a reply of the chart or table generator carries
MaxDescriptors == 2
\* the most statements a synthesized procedure runs before it ends or throws
MaxSteps == 2
\* the most columns a reducer map handed to safe_groupby_agg names
MaxAggColumns == 2
\* the most columns a table handed to the profiler on its own carries
MaxProfileColumns == 3
\* the most data rows of the raw data handed to the chart data shaping
MaxVizRows == 2

(***************************************************************************)
(* Values.                                                                 *)
(***************************************************************************)
Str(chars) == [t |-> "str", s |-> chars]
PyNone == [t |-> "None", s |-> <<>>]
PdNA == [t |-> "NA", s |-> <<>>]
NaN == [t |-> "NaN", s |-> <<>>]
NaT == [t |-> "NaT", s |-> <<>>]
PosInf == [t |-> "inf", s |-> <<>>]
\* a finite number, written with its decimal digits
Num(digits) == [t |-> "num", s |-> digits]
\* an integer object (used as a header cell)
PyInt(digits) == [t |-> "int", s |-> digits]
\* a timestamp, written with the text it was parsed from
Timestamp(chars) == [t |-> "ts", s |-> chars]

Digits == {"0", "1", "2", "3", "4", "5", "6", "7", "8", "9"}
Whitespace == {" ", "\n"}

\* the set of the indices i of s that satisfy keep, as an increasing sequence
SortedIdx(K) ==
    [r \in 1..Cardinality(K) |->
        CHOOSE i \in K : Cardinality({j \in K : j < i}) = r - 1]

\* str.strip(): drop leading and trailing whitespace
Strip(chars) ==
    LET inked == {i \in 1..Len(chars) : chars[i] \notin Whitespace}
    IN  IF inked = {} THEN <<>>
        ELSE LET lo == CHOOSE i \in inked : \A j \in inked : i <= j
                 hi == CHOOSE i \in inked : \A j \in inked : j <= i
             IN  SubSeq(chars, lo, hi)

\* str.replace(' ', '_')
ReplaceSpaces(chars) ==
    [i \in 1..Len(chars) |-> IF chars[i] = " " THEN "_" ELSE chars[i]]

\* str.lower() on the letters the model uses
LowerChar(c) ==
    CASE c = "A" -> "a" [] c = "B" -> "b" [] c = "D" -> "d" [] OTHER -> c

Lower(chars) == [i \in 1..Len(chars) |-> LowerChar(chars[i])]

\* sub in chars
Contains(chars, sub) ==
    \E i \in 0..(Len(chars) - Len(sub)) :
        \A j \in 1..Len(sub) : chars[i + j] = sub[j]

\* x.replace('.', '', 1): drop the first full stop
DropFirstDot(chars) ==
    LET dots == {i \in 1..Len(chars) : chars[i] = "."}
    IN  IF dots = {} THEN chars
        ELSE LET d == CHOOSE i \in dots : \A j \in dots : i <= j
             IN  SubSeq(chars, 1, d - 1) \o SubSeq(chars, d + 1, Len(chars))

\* str.isdigit(): non-empty and digits only
IsDigit(chars) == Len(chars) > 0 /\ \A i \in 1..Len(chars) : chars[i] \in Digits

\* str(val) of a cell
PyStr(c) ==
    CASE c.t = "str" -> c.s
      [] c.t = "None" -> <<"N", "o", "n", "e">>
      [] c.t = "NA" -> <<"<", "N", "A", ">">>
      [] c.t = "NaN" -> <<"n", "a", "n">>
      [] c.t = "NaT" -> <<"N", "a", "T">>
      [] c.t = "inf" -> <<"i", "n", "f">>
      [] OTHER -> c.s

\* val is not None and str(val).strip() != ''
NonBlank(c) == c.t # "None" /\ Strip(PyStr(c)) # <<>>

\* pandas' notion of a missing value (pd.isna)
IsNull(c) == c.t \in {"None", "NA", "NaN", "NaT"}

(***************************************************************************)
(* Tables (pandas DataFrame): the column names, the dtype of each column   *)
(* and the rows, every row holding one cell per column.                    *)
(***************************************************************************)
EmptyDF == [columns |-> <<>>, dtypes |-> <<>>, rows |-> <<>>]

NRows(d) == Len(d.rows)
NCols(d) == Len(d.columns)

\* DataFrame.empty: some axis has length 0
DfEmpty(d) == NRows(d) = 0 \/ NCols(d) = 0

Column(d, j) == [i \in 1..NRows(d) |-> d.rows[i][j]]

IsNumberCell(c) == c.t \in {"num", "inf", "NaN", "int"}
IsIntegral(c) == c.t = "int" \/ (c.t = "num" /\ \A i \in 1..Len(c.s) : c.s[i] # ".")

\* the dtype pandas infers for a column built from Python objects, and the
\* cells as stored: None becomes NaN in a column that holds only numbers
InferDtype(cells) ==
    IF Len(cells) > 0
       /\ (\A i \in 1..Len(cells) : IsNumberCell(cells[i]) \/ cells[i].t = "None")
       /\ (\E i \in 1..Len(cells) : IsNumberCell(cells[i]))
    THEN IF \A i \in 1..Len(cells) : IsIntegral(cells[i]) THEN "int64" ELSE "float64"
    ELSE "object"

StoreCell(dtype, c) == IF dtype = "object" \/ c.t # "None" THEN c ELSE NaN

\* pd.DataFrame(rows, columns=names)
MakeDataFrame(names, rows) ==
    LET dts == [j \in 1..Len(names) |->
                   InferDtype([i \in 1..Len(rows) |-> rows[i][j]])]
    IN  [columns |-> names,
         dtypes |-> dts,
         rows |-> [i \in 1..Len(rows) |->
                      [j \in 1..Len(names) |-> StoreCell(dts[j], rows[i][j])]]]

\* the rows of d whose index is in keep, in order
TakeRows(d, keep) ==
    LET idx == SortedIdx(keep)
    IN  [d EXCEPT !.rows = [r \in 1..Len(idx) |-> d.rows[idx[r]]]]

\* the columns of d whose index is in keep, in order
TakeCols(d, keep) ==
    LET idx == SortedIdx(keep)
    IN  [columns |-> [c \in 1..Len(idx) |-> d.columns[idx[c]]],
         dtypes |-> [c \in 1..Len(idx) |-> d.dtypes[idx[c]]],
         rows |-> [i \in 1..NRows(d) |-> [c \in 1..Len(idx) |-> d.rows[i][idx[c]]]]]

\* df.replace('', pd.NA)
ReplaceBlankWithNA(d) ==
    [d EXCEPT !.rows = [i \in 1..NRows(d) |-> [j \in 1..NCols(d) |->
        IF d.rows[i][j] = Str(<<>>) THEN PdNA ELSE d.rows[i][j]]]]

\* df.dropna(how='all')
DropNullRows(d) ==
    TakeRows(d, {i \in 1..NRows(d) : \E j \in 1..NCols(d) : ~IsNull(d.rows[i][j])})

\* df.dropna(axis=1, how='all')
DropNullCols(d) ==
    TakeCols(d, {j \in 1..NCols(d) : \E i \in 1..NRows(d) : ~IsNull(d.rows[i][j])})

\* df.columns.str.strip().str.replace(' ', '_'): a name that is no string
\* comes out as NaN
CleanName(h) == IF h.t = "str" THEN Str(ReplaceSpaces(Strip(h.s))) ELSE NaN

\* the .str accessor refuses an index that holds no string at all
StrAccessorRaises(names) ==
    Len(names) > 0 /\ \A j \in 1..Len(names) : names[j].t # "str"

RenameColumns(d) == [d EXCEPT !.columns = [j \in 1..NCols(d) |-> CleanName(d.columns[j])]]

\* isinstance(x, (int, float)) or (isinstance(x, str) and x.replace('.', '', 1).isdigit())
LooksNumeric(c) ==
    IsNumberCell(c) \/ (c.t = "str" /\ IsDigit(DropFirstDot(c.s)))

\* pd.to_numeric(..., errors='coerce') of one cell
ToNumeric(c) ==
    CASE IsNumberCell(c) -> c
      [] c.t = "str" /\ IsDigit(DropFirstDot(c.s)) -> Num(c.s)
      [] OTHER -> NaN

DateTerms ==
    { <<"d", "a", "t", "e">>, <<"t", "i", "m", "e">>, <<"d", "a", "y">>,
      <<"m", "o", "n", "t", "h">>, <<"y", "e", "a", "r">> }

\* any(date_term in col.lower() for date_term in [...])
IsDateName(chars) == \E term \in DateTerms : Contains(Lower(chars), term)

\* text the date parser accepts: a four-digit year of this or the next century
ParsesAsDate(chars) ==
    Len(chars) = 4 /\ IsDigit(chars) /\ chars[1] = "2" /\ chars[2] \in {"0", "1"}

\* pd.to_datetime(..., errors='coerce') of one cell
ToDatetime(c) ==
    CASE c.t = "ts" -> c
      [] c.t = "str" /\ ParsesAsDate(c.s) -> Timestamp(c.s)
      [] c.t \in {"num", "int"} -> Timestamp(c.s)
      [] OTHER -> NaT

\* the number of columns of d named like column j
NameCount(d, j) == Cardinality({k \in 1..NCols(d) : d.columns[k] = d.columns[j]})

\* the type conversion loop, column j: what the column becomes
ConvertedDtype(d, j) ==
    LET cells == Column(d, j)
        numeric == \A i \in 1..Len(cells) : LooksNumeric(cells[i])
    IN  IF NameCount(d, j) > 1 THEN d.dtypes[j]
        ELSE IF numeric
             THEN IF \A i \in 1..Len(cells) : IsIntegral(ToNumeric(cells[i]))
                  THEN "int64" ELSE "float64"
             ELSE IF d.columns[j].t = "str" /\ IsDateName(d.columns[j].s)
                  THEN "datetime64[ns]"
                  ELSE d.dtypes[j]

ConvertedCell(d, j, c) ==
    LET cells == Column(d, j)
        numeric == \A i \in 1..Len(cells) : LooksNumeric(cells[i])
    IN  IF NameCount(d, j) > 1 THEN c
        ELSE IF numeric THEN ToNumeric(c)
             ELSE IF d.columns[j].t = "str" /\ IsDateName(d.columns[j].s)
                  THEN ToDatetime(c)
                  ELSE c

\* col.lower() raises for a column whose name is no string, unless the
\* column took the numeric branch
ConvertRaises(d) ==
    \E j \in 1..NCols(d) :
        /\ d.columns[j].t # "str"
        /\ \/ NameCount(d, j) > 1
           \/ \E i \in 1..NRows(d) : ~LooksNumeric(d.rows[i][j])

ConvertColumns(d) ==
    [columns |-> d.columns,
     dtypes |-> [j \in 1..NCols(d) |-> ConvertedDtype(d, j)],
     rows |-> [i \in 1..NRows(d) |-> [j \in 1..NCols(d) |->
                  ConvertedCell(d, j, d.rows[i][j])]]]

\* df.replace([np.inf, -np.inf], np.nan)
ReplaceInfinity(d) ==
    [d EXCEPT !.rows = [i \in 1..NRows(d) |-> [j \in 1..NCols(d) |->
        IF d.rows[i][j].t = "inf" THEN NaN ELSE d.rows[i][j]]]]

(***************************************************************************)
(* The tabular normalizer.  raw_data is a sequence of items; an item is a  *)
(* list (k = "list", cells), a record (k = "dict", keys and their cells in *)
(* insertion order) or anything else (k = "scalar").                       *)
(***************************************************************************)
ListItem(cells) == [k |-> "list", keys |-> <<>>, cells |-> cells]
DictItem(keys, cells) == [k |-> "dict", keys |-> keys, cells |-> cells]
ScalarItem == [k |-> "scalar", keys |-> <<>>, cells |-> <<>>]

\* len(item); a scalar has none
ItemLen(item) == IF item.k = "dict" THEN Len(item.keys) ELSE Len(item.cells)

\* header is not None and str(header).strip() != ''
ValidIndices(headers) == {i \in 1..Len(headers) : NonBlank(headers[i])}

\* [row[i] for i in valid_indices]
FilteredRow(row, idx) == [c \in 1..Len(idx) |-> row.cells[idx[c]]]

\* the header-array branch raises on a row that has no length, and on a
\* record indexed by position
ArrayBranchRaises(headers, rows) ==
    \E r \in 1..Len(rows) :
        \/ rows[r].k = "scalar"
        \/ /\ rows[r].k = "dict"
           /\ ItemLen(rows[r]) >= Len(headers)
           /\ ValidIndices(headers) # {}

\* the header-array branch: the frame built from the rows kept
ArrayBranch(headers, rows) ==
    LET idx == SortedIdx(ValidIndices(headers))
        kept == {r \in 1..Len(rows) :
                    /\ ItemLen(rows[r]) >= Len(headers)
                    /\ \E c \in 1..Len(idx) : NonBlank(rows[r].cells[idx[c]])}
        order == SortedIdx(kept)
    IN  MakeDataFrame([c \in 1..Len(idx) |-> headers[idx[c]]],
                      [r \in 1..Len(order) |-> FilteredRow(rows[order[r]], idx)])

\* item.values() exists on records only
RecordBranchRaises(items) == \E r \in 1..Len(items) : items[r].k # "dict"

\* the value a record holds under key, NaN when it has none
RecordGet(item, key) ==
    IF \E c \in 1..Len(item.keys) : item.keys[c] = key
    THEN item.cells[CHOOSE c \in 1..Len(item.keys) : item.keys[c] = key]
    ELSE NaN

\* the keys of the records in order of first appearance
RECURSIVE UnionKeys(_)
UnionKeys(items) ==
    IF items = <<>> THEN <<>>
    ELSE LET before == UnionKeys(SubSeq(items, 1, Len(items) - 1))
             last == items[Len(items)]
             fresh == {c \in 1..Len(last.keys) :
                          \A b \in 1..Len(before) : before[b] # last.keys[c]}
             idx == SortedIdx(fresh)
         IN  before \o [c \in 1..Len(idx) |-> last.keys[idx[c]]]

\* the record branch: the frame built from the records kept
RecordBranch(items) ==
    LET kept == {r \in 1..Len(items) :
                    \E c \in 1..Len(items[r].cells) : NonBlank(items[r].cells[c])}
        order == SortedIdx(kept)
        recs == [r \in 1..Len(order) |-> items[order[r]]]
        keys == UnionKeys(recs)
    IN  MakeDataFrame([c \in 1..Len(keys) |-> Str(keys[c])],
                      [r \in 1..Len(recs) |->
                          [c \in 1..Len(keys) |-> RecordGet(recs[r], keys[c])]])

\* lines 80-108: the cleaning of a frame that is not empty, up to the renaming
Dropped(d) == DropNullCols(DropNullRows(ReplaceBlankWithNA(d)))

CleaningRaises(d) ==
    /\ ~DfEmpty(d)
    /\ \/ StrAccessorRaises(Dropped(d).columns)
       \/ ConvertRaises(RenameColumns(Dropped(d)))

Cleaned(d) ==
    IF DfEmpty(d) THEN d
    ELSE ReplaceInfinity(ConvertColumns(RenameColumns(Dropped(d))))

\* the try block: [exc |-> an exception was raised, df |-> the frame otherwise]
TryBody(raw_data) ==
    LET isArray == raw_data[1].k = "list"
        built == IF isArray THEN ArrayBranch(raw_data[1].cells, Tail(raw_data))
                 ELSE RecordBranch(raw_data)
        raises == IF isArray THEN ArrayBranchRaises(raw_data[1].cells, Tail(raw_data))
                  ELSE RecordBranchRaises(raw_data)
    IN  IF raises \/ CleaningRaises(built)
        THEN [exc |-> TRUE, df |-> EmptyDF]
        ELSE [exc |-> FALSE, df |-> Cleaned(built)]

\* an except clause that reports the error and lets it out again
BrokenNormalizeHandler(body) == [raised |-> TRUE, df |-> EmptyDF]

\* the except clause of the method: report and return an empty frame
OnNormalizeError(body) == [raised |-> FALSE, df |-> EmptyDF]

\* StatisticalAgent._create_dataframe_from_raw
CreateDataframeFromRaw(raw_data) ==
    IF raw_data = <<>> THEN [raised |-> FALSE, df |-> EmptyDF]
    ELSE LET body == TryBody(raw_data)
         IN  IF body.exc THEN OnNormalizeError(body)
             ELSE [raised |-> FALSE, df |-> body.df]

(***************************************************************************)
(* Raw tables the normalizer is run on.                                    *)
(***************************************************************************)
Cells ==
    { PyNone, Str(<<>>), Str(<<" ">>), Str(<<"x">>),
      Str(<<"2", "0", "2", "0">>), PosInf }

\* the cells of the second column of a row
SecondCells == { PyNone, Str(<<" ">>), Str(<<"2", "0", "2", "0">>) }

HeaderRows ==
    { << Str(<<"A">>), Str(<<"B">>) >>,
      << Str(<<"A">>), Str(<<"A">>) >>,
      << Str(<<" ", "A", " ", "B">>), Str(<<"A", "_", "B">>) >>,
      << PyNone, Str(<<" ">>) >>,
      << Str(<<"D", "a", "y">>), Str(<<>>) >>,
      << Str(<<"D", "a", "y">>), Str(<<"B">>) >>,
      << PyInt(<<"5">>), PyInt(<<"6">>) >> }

\* data rows of the header-array form: full rows, ragged rows and a row that
\* is no list
ArrayRows ==
    { ListItem(<<a, b>>) : a \in Cells, b \in SecondCells }
    \cup { ListItem(<<>>), ListItem(<<Str(<<"x">>)>>),
           ListItem(<<Str(<<"x">>), PyNone, Str(<<"x">>)>>), ScalarItem }

RecordCells == { PyNone, Str(<<>>), Str(<<"x">>), PosInf }

RecordKeys == << <<"A">>, <<"D", "a", "y">> >>

Records ==
    { DictItem(<<>>, <<>>), ScalarItem }
    \cup { DictItem(<<RecordKeys[1]>>, <<a>>) : a \in RecordCells }
    \cup { DictItem(<<RecordKeys[2]>>, <<a>>) : a \in RecordCells }
    \cup { DictItem(RecordKeys, <<a, b>>) : a \in RecordCells, b \in RecordCells }

\* the sequences over S of length at most n
SeqUpTo(S, n) == UNION { [1..m -> S] : m \in 0..n }

RawTables ==
    { <<ListItem(h)>> \o rows : h \in HeaderRows, rows \in SeqUpTo(ArrayRows, MaxRows) }
    \cup (SeqUpTo(Records, MaxRows) \ { <<>> })
    \cup { <<>> }

(***************************************************************************)
(* The result normalizer.  A Python value is a record [t, s, keys, items]: *)
(* t is its type, s the text of a scalar, items the members of a container *)
(* and keys the keys (labels) of a mapping, a Series or a DataFrame.       *)
(***************************************************************************)
Scalar(t, s) == [t |-> t, s |-> s, keys |-> <<>>, items |-> <<>>]
Container(t, keys, items) == [t |-> t, s |-> "", keys |-> keys, items |-> items]

\* what a call that raised leaves in place of a value
Raised == Scalar("raise", "")

\* the Python scalar a numpy scalar is boxed to by tolist() and to_dict()
ToNative(v) ==
    CASE v.t \in {"np.float64", "np.float32"} -> Scalar("float", v.s)
      [] v.t = "np.int64" -> Scalar("int", v.s)
      [] OTHER -> v

\* obj.to_dict() of a Series: label -> value
SeriesToDict(v) ==
    Container("dict", v.keys, [i \in 1..Len(v.items) |-> ToNative(v.items[i])])

\* obj.to_dict() of a DataFrame: column -> label -> value
FrameToDict(v) ==
    Container("dict", v.keys, [i \in 1..Len(v.items) |-> SeriesToDict(v.items[i])])

\* obj.tolist() of a one-dimensional array
ArrayToList(v) ==
    Container("list", <<>>, [i \in 1..Len(v.items) |-> ToNative(v.items[i])])

\* pd.isna of a scalar
ScalarIsNa(v) ==
    \/ v.t \in {"None", "NA", "NaT"}
    \/ v.t \in {"float", "np.float64", "np.float32"} /\ v.s = "nan"

\* pd.isna(obj) used as a condition raises for an array-like of two
\* members or more: the truth value of its result is ambiguous
IsNaRaises(v) == v.t = "Index" /\ Len(v.items) >= 2

\* pd.isna(obj) as a condition
IsNaTruth(v) ==
    IF v.t = "Index" THEN Len(v.items) = 1 /\ ScalarIsNa(v.items[1])
    ELSE ScalarIsNa(v)

\* str(obj)
StrOf(v) == IF v.t = "str" THEN v.s ELSE "<" \o v.t \o " " \o v.s \o ">"

\* float(obj) if isinstance(obj, (int, float, np.number)) else str(obj)
Primitive(v) ==
    IF v.t \in {"int", "bool", "float", "np.float32"}
    THEN Scalar("float", v.s)
    ELSE Scalar("str", StrOf(v))

\* StatisticalAgent._make_serializable
RECURSIVE MakeSerializable(_)
MakeSerializable(obj) ==
    CASE obj.t = "DataFrame" -> FrameToDict(obj)
      [] obj.t = "Series" -> SeriesToDict(obj)
      [] obj.t = "ndarray" -> ArrayToList(obj)
      [] obj.t \in {"np.int64", "np.float64"} -> Scalar("float", obj.s)
      [] obj.t \in {"dict", "list", "tuple"} ->
            LET out == [i \in 1..Len(obj.items) |-> MakeSerializable(obj.items[i])]
            IN  IF \E i \in 1..Len(out) : out[i] = Raised THEN Raised
                ELSE Container(IF obj.t = "dict" THEN "dict" ELSE "list",
                               obj.keys, out)
      [] OTHER ->
            IF IsNaRaises(obj) THEN Raised
            ELSE IF IsNaTruth(obj) THEN Scalar("None", "")
            ELSE Primitive(obj)

(***************************************************************************)
(* Values the result normalizer is run on.                                 *)
(***************************************************************************)
PlainLeaves ==
    { Scalar("None", ""), Scalar("float", "1.5"), Scalar("float", "nan"),
      Scalar("float", "inf"), Scalar("float", "-inf"), Scalar("int", "3"),
      Scalar("bool", "1"), Scalar("str", "s") }

LibraryLeaves ==
    { Scalar("np.float64", "1.5"), Scalar("np.float64", "nan"),
      Scalar("np.int64", "3"), Scalar("np.float32", "1.5"),
      Scalar("Timestamp", "2020-01-01"), Scalar("NaT", ""), Scalar("object", "o") }

ArrayLikes ==
    { Container("ndarray", <<>>, <<Scalar("np.float64", "1.5"), Scalar("np.float64", "nan")>>),
      Container("ndarray", <<>>, <<Scalar("np.int64", "3")>>),
      Container("Series", <<"0">>, <<Scalar("np.float64", "inf")>>),
      Container("Series", <<"0">>, <<Scalar("np.int64", "3")>>),
      Container("DataFrame", <<"a">>,
                <<Container("Series", <<"0", "1">>,
                            <<Scalar("np.float64", "nan"), Scalar("np.float64", "1.5")>>)>>),
      Container("DataFrame", <<"d">>,
                <<Container("Series", <<"0">>, <<Scalar("Timestamp", "2020-01-01")>>)>>),
      Container("Index", <<>>, <<Scalar("str", "s")>>),
      Container("Index", <<>>, <<Scalar("str", "s"), Scalar("str", "s")>>) }

Leaves == PlainLeaves \cup LibraryLeaves \cup ArrayLikes

\* the values nested at most d containers deep
RECURSIVE ValuesUpTo(_)
ValuesUpTo(d) ==
    IF d = 0 THEN Leaves
    ELSE LET inner == ValuesUpTo(d - 1)
         IN  Leaves
             \cup { Container("dict", <<>>, <<>>), Container("list", <<>>, <<>>),
                    Container("tuple", <<>>, <<>>) }
             \cup { Container("dict", <<"k">>, <<v>>) : v \in inner }
             \cup { Container("list", <<>>, <<v>>) : v \in inner }
             \cup { Container("list", <<>>, <<v, Scalar("float", "1.5")>>) : v \in inner }
             \cup { Container("tuple", <<>>, <<v>>) : v \in inner }

(***************************************************************************)
(* The pipeline controller, StatisticalAgent.analyze.                      *)
(*                                                                         *)
(* Text that reaches the log or the caller is modelled by the set of the   *)
(* facts it states (the message of an error, its trace, ...).  An          *)
(* exception is a record: its type, the HTTP status it carries (0 when it  *)
(* is no HTTPException), str(e) and the text traceback.format_exc() gives  *)
(* while it is being handled.                                              *)
(***************************************************************************)
StatusBadRequest == 400
StatusServerError == 500

Exception(type, status, msg, trace) ==
    [type |-> type, status |-> status, msg |-> msg, trace |-> trace]

NoException == Exception("none", 0, {}, {})

\* HTTPException(status_code, detail): str(e) is "<status>: <detail>", and
\* its traceback shows the exception `during` whose handling it was raised
HTTPException(status, detail, during) ==
    Exception("HTTPException", status, {"http_status"} \cup detail,
              {"http_status"} \cup detail \cup during.trace)

\* an error raised by a synthesized procedure
ProcedureError == Exception("ProcedureError", 0, {"proc_message"},
                            {"proc_message", "proc_trace"})

\* ValueError("No analysis_result found in execution environment")
NoResultError == Exception("ValueError", 0, {"no_analysis_result"},
                           {"no_analysis_result", "execute_trace"})

\* the ambiguous truth value pd.isna raises inside _make_serializable
SerializeError == Exception("ValueError", 0, {"ambiguous_truth"},
                            {"ambiguous_truth", "serialize_trace"})

\* what Python raises by itself in the body of analyze
PythonError(type, stage) ==
    Exception(type, 0, {type \o "@" \o stage}, {type \o "@" \o stage})

\* lines 966-969
EmptyDatasetError ==
    HTTPException(StatusBadRequest, {"Empty dataset provided for analysis"}, NoException)

\* lines 539-550: the except clause of _execute_analysis
ExecutionFailure(e) == HTTPException(StatusServerError, e.msg \cup e.trace, e)

\* what analyze hands to the caller instead of a response
NoFailure == [stage |-> "none", status |-> 0, raised |-> NoException,
              error |-> {}, traceback |-> {}]

\* lines 1017-1026: the except clause of analyze, for an exception e raised
\* in `stage`
Surface(stage, e) ==
    [stage |-> stage, status |-> StatusServerError, raised |-> e,
     error |-> e.msg, traceback |-> e.trace]

\* lines 1018-1019: what the except clause of analyze prints for e, the
\* message str(e) and the traceback
HandlerPrints(e) == e.msg \cup e.trace

\* every fact the caller can read in the error payload
Payload(f) == f.error \cup f.traceback

\* lines 726-807: the prompt of _generate_tables is an f-string in which the
\* example code holds two dictionary displays in single braces, so the
\* string 'Region' is formatted with the text after its colon as format
\* specifier and str.__format__ raises ValueError, for every argument
TablesPromptError == PythonError("ValueError", "tables_prompt")

(***************************************************************************)
(* Synthesized procedures.  The text of a procedure is opaque; what matters*)
(* is what running it does: whether it binds analysis_result, the value it *)
(* binds, and whether it throws (after binding, when it does both).        *)
(***************************************************************************)
Procedure(assigns, throws, value) ==
    [assigns |-> assigns, throws |-> throws, value |-> value]

NoProcedure == Procedure(FALSE, FALSE, Scalar("None", ""))

ResultValues ==
    { Container("dict", <<"k">>, <<Scalar("float", "1.5")>>),
      Container("dict", <<"k">>, <<Scalar("np.float64", "nan")>>),
      Container("list", <<>>, <<Scalar("float", "1.5")>>),
      Container("DataFrame", <<"d">>,
                <<Container("Series", <<"0">>, <<Scalar("Timestamp", "2020-01-01")>>)>>),
      Container("dict", <<"k">>,
                <<Container("Index", <<>>, <<Scalar("str", "s"), Scalar("str", "s")>>)>>) }

Procedures ==
    { Procedure(TRUE, FALSE, v) : v \in ResultValues }
    \cup { Procedure(FALSE, TRUE, Scalar("None", "")),
           Procedure(TRUE, TRUE, Container("dict", <<"k">>, <<Scalar("float", "1.5")>>)),
           Procedure(FALSE, FALSE, Scalar("None", "")) }

\* lines 476-550, _execute_analysis: [exc, value]
ExecuteAnalysis(proc) ==
    IF proc.throws THEN [exc |-> ExecutionFailure(ProcedureError), value |-> Raised]
    ELSE IF ~proc.assigns THEN [exc |-> ExecutionFailure(NoResultError), value |-> Raised]
    ELSE IF MakeSerializable(proc.value) = Raised
         THEN [exc |-> ExecutionFailure(SerializeError), value |-> Raised]
         ELSE [exc |-> NoException, value |-> MakeSerializable(proc.value)]

\* json.dumps(analysis_result, indent=2) accepts mappings, sequences and
\* Python scalars only
RECURSIVE JsonDumps(_)
JsonDumps(v) ==
    IF v.t \in {"dict", "list"}
    THEN \A i \in 1..Len(v.items) : JsonDumps(v.items[i])
    ELSE v.t \in {"None", "float", "int", "bool", "str"}

(***************************************************************************)
(* Replies of the external reasoning capability.                           *)
(***************************************************************************)
\* the synthesizer's reply: unparsable, or an object with or without the
\* implementation field
SynthReplies ==
    { [parse |-> "unparsable", has_impl |-> FALSE, implementation |-> NoProcedure],
      [parse |-> "object", has_impl |-> FALSE, implementation |-> NoProcedure] }
    \cup { [parse |-> "object", has_impl |-> TRUE, implementation |-> q] : q \in Procedures }

\* lines 444-474: the package _create_statistical_analysis returns
ParsePackage(reply) ==
    IF reply.parse = "unparsable"
    THEN [parsed |-> FALSE, has_impl |-> FALSE, implementation |-> NoProcedure,
          analysis_type |-> "error"]
    ELSE [parsed |-> TRUE, has_impl |-> reply.has_impl,
          implementation |-> reply.implementation, analysis_type |-> "descriptive"]

\* lines 270-274: the package for an empty table, made without a call
EmptyPackage ==
    [parsed |-> TRUE, has_impl |-> FALSE, implementation |-> NoProcedure,
     analysis_type |-> "none"]

NoPackage ==
    [parsed |-> FALSE, has_impl |-> FALSE, implementation |-> NoProcedure,
     analysis_type |-> ""]

\* what one descriptor of the reply is and what running its data-shaping
\* procedure does: "ok" leaves result_df = df, "throws" raises, "none" binds no
\* result_df, "mutate_throws" empties df in place and then raises,
\* "not_mapping" is a list element that is no JSON object
DescriptorKinds == {"ok", "throws", "none", "mutate_throws", "not_mapping"}

\* the reply of the chart generator: unparsable, parsable but no
\* object, or an object with a list of descriptors
PresentReplies ==
    { [parse |-> "unparsable", configs |-> <<>>],
      [parse |-> "not_object", configs |-> <<>>] }
    \cup { [parse |-> "object", configs |-> c] :
               c \in { <<>>, <<"ok">>, <<"ok", "ok">>, <<"throws", "ok">>,
                       <<"none", "ok">>, <<"mutate_throws", "ok">>,
                       <<"not_mapping", "ok">> } }

NoReply == [parse |-> "none", configs |-> <<>>]

\* lines 639-704, one iteration of the loop on the table d that local_scope
\* binds as df (the caller's table itself, line 647):
\* whether the descriptor is emitted, the table afterwards, and whether the
\* except handler itself raises (viz_config.get on a non-mapping, line 703)
StepDescriptor(kind, d) ==
    CASE kind = "ok" ->
            [emit |-> NRows(d) > 0 /\ NCols(d) > 0, df |-> d, abort |-> FALSE]
      [] kind = "mutate_throws" ->
            [emit |-> FALSE, df |-> [d EXCEPT !.rows = <<>>], abort |-> FALSE]
      [] kind = "not_mapping" ->
            [emit |-> FALSE, df |-> d, abort |-> TRUE]
      [] OTHER ->
            [emit |-> FALSE, df |-> d, abort |-> FALSE]

\* lines 639-706: the whole loop over the descriptors, in reply
\* order, each iteration working on the table the previous ones left
RECURSIVE RunDescriptors(_, _)
RunDescriptors(configs, d) ==
    IF configs = <<>>
    THEN [emitted |-> <<>>, df |-> d, aborted |-> FALSE]
    ELSE LET before == RunDescriptors(SubSeq(configs, 1, Len(configs) - 1), d)
             step   == StepDescriptor(configs[Len(configs)], before.df)
         IN  IF before.aborted
             THEN before
             ELSE [emitted |-> IF step.emit
                               THEN Append(before.emitted, Len(configs))
                               ELSE before.emitted,
                   df      |-> step.df,
                   aborted |-> step.abort]

\* lines 690-699: the descriptors emitted, in reply order, each
\* carrying the sheet ids the stage was called with
Emitted(idx, source, target) ==
    [r \in 1..Len(idx) |->
        [title |-> idx[r], sourceSheetId |-> source, targetSheetId |-> target]]

InterpretationReplies == {"", "interpretation"}

(***************************************************************************)
(* Requests.                                                               *)
(***************************************************************************)
NoSheet == ""

HA == Str(<<"A">>)
HB == Str(<<"B">>)
HDay == Str(<<"D", "a", "y">>)
CX == Str(<<"x">>)
CYear == Str(<<"2", "0", "2", "0">>)

\* the sheets a request carries
Sheets ==
    { <<>>,
      << ListItem(<<HA, HB>>) >>,
      << ListItem(<<HA, HB>>), ListItem(<<Str(<<>>), Str(<<" ">>)>>) >>,
      << ListItem(<<PyInt(<<"5">>), PyInt(<<"6">>)>>), ListItem(<<CX, CYear>>) >>,
      << ListItem(<<HA, HA>>), ListItem(<<CX, CYear>>) >>,
      << ListItem(<<HA, HB>>), ListItem(<<CX, CYear>>) >>,
      << ListItem(<<HDay, HB>>), ListItem(<<CYear, CYear>>), ListItem(<<CX, Str(<<" ">>)>>) >> }

\* relevantData, a mapping in insertion order: [id, raw]
RelevantData ==
    { <<>> }
    \cup { << [id |-> "s1", raw |-> t] >> : t \in Sheets }
    \cup { << [id |-> "s2", raw |-> t], [id |-> "s1", raw |-> <<>>] >> : t \in Sheets }

Requests ==
    { [relevantData |-> rd, activeSheetId |-> "s1", explicitTargetSheetId |-> x] :
        rd \in RelevantData, x \in {NoSheet, "s3"} }

\* line 957
PrimarySheetId(r) ==
    IF Len(r.relevantData) > 0 THEN r.relevantData[1].id ELSE r.activeSheetId

\* line 958: relevantData.get(primary_sheet_id, [])
SourceData(r) ==
    LET hits == {i \in 1..Len(r.relevantData) : r.relevantData[i].id = PrimarySheetId(r)}
    IN  IF hits = {} THEN <<>> ELSE r.relevantData[CHOOSE i \in hits : TRUE].raw

\* a target that ignores the explicit target sheet
ActiveSheetOnly(r) == r.activeSheetId

\* line 959
TargetSheetId(r) ==
    IF r.explicitTargetSheetId # NoSheet THEN r.explicitTargetSheetId
    ELSE r.activeSheetId

\* line 965: the test analyze makes before it goes on
EmptyDatasetColumnsOnly(d) == NCols(d) = 0

EmptyDataset(d) == DfEmpty(d)

\* lines 117-207: df[col].dtype fails when two columns share the name
ProfileRaises(d) ==
    ~DfEmpty(d) /\ \E j \in 1..NCols(d) : NameCount(d, j) > 1

NumericDtypes == {"int64", "float64"}

\* lines 117-207, _generate_data_profile
GenerateDataProfile(d) ==
    IF DfEmpty(d)
    THEN [empty |-> TRUE, rows |-> 0, columns |-> 0, numeric_columns |-> <<>>,
          categorical_columns |-> <<>>, datetime_columns |-> <<>>]
    ELSE LET num == SortedIdx({j \in 1..NCols(d) : d.dtypes[j] \in NumericDtypes})
             dat == SortedIdx({j \in 1..NCols(d) : d.dtypes[j] = "datetime64[ns]"})
             cat == SortedIdx({j \in 1..NCols(d) : d.dtypes[j] = "object"})
         IN  [empty |-> FALSE, rows |-> NRows(d), columns |-> NCols(d),
              numeric_columns |-> [c \in 1..Len(num) |-> d.columns[num[c]]],
              categorical_columns |-> [c \in 1..Len(cat) |-> d.columns[cat[c]]],
              datetime_columns |-> [c \in 1..Len(dat) |-> d.columns[dat[c]]]]

NoProfile ==
    [empty |-> TRUE, rows |-> 0, columns |-> 0, numeric_columns |-> <<>>,
     categorical_columns |-> <<>>, datetime_columns |-> <<>>]

NoResponse ==
    [kind |-> "none", text |-> "", analysisType |-> "", chartConfig |-> <<>>,
     tableConfig |-> <<>>, sourceSheetId |-> NoSheet, targetSheetId |-> NoSheet,
     operation |-> "", rows_analyzed |-> 0, columns_analyzed |-> 0,
     visualization_count |-> 0, table_count |-> 0]

\* lines 1000-1015
BuildResponse ==
    [kind |-> "response", text |-> text, analysisType |-> package.analysis_type,
     chartConfig |-> charts, tableConfig |-> tables,
     sourceSheetId |-> PrimarySheetId(req), targetSheetId |-> TargetSheetId(req),
     operation |-> "statistical", rows_analyzed |-> NRows(df),
     columns_analyzed |-> NCols(df), visualization_count |-> Len(charts),
     table_count |-> Len(tables)]

(***************************************************************************)
(* The execution sandbox, StatisticalAgent._execute_analysis.  Tables are  *)
(* objects: x_heap maps a reference to the table it denotes, reference 0   *)
(* being the caller's table.  A synthesized procedure is a sequence of     *)
(* statements run against its execution scope.                             *)
(***************************************************************************)
\* the calls of _execute_analysis that are under way together or in turn
Calls == {1, 2}

CallerRef == 0

Chars(str) ==
    CASE str = "_year" -> <<"_", "y", "e", "a", "r">>
      [] str = "_month" -> <<"_", "m", "o", "n", "t", "h">>
      [] str = "_day" -> <<"_", "d", "a", "y">>
      [] str = "tmp" -> <<"t", "m", "p">>

\* pd.api.types.is_datetime64_any_dtype(working_df[col]); working_df[col]
\* is no column when several columns share the name
IsDatetimeColumn(d, j) == NameCount(d, j) = 1 /\ d.dtypes[j] = "datetime64[ns]"

\* working_df[name] = cells: replace the column of that name, or append it
SetColumn(d, name, dtype, cells) ==
    IF \E j \in 1..NCols(d) : d.columns[j] = name
    THEN LET at == CHOOSE j \in 1..NCols(d) : d.columns[j] = name
         IN  [columns |-> d.columns,
              dtypes |-> [d.dtypes EXCEPT ![at] = dtype],
              rows |-> [i \in 1..NRows(d) |-> [d.rows[i] EXCEPT ![at] = cells[i]]]]
    ELSE [columns |-> Append(d.columns, name),
          dtypes |-> Append(d.dtypes, dtype),
          rows |-> [i \in 1..NRows(d) |-> Append(d.rows[i], cells[i])]]

\* .dt.year, .dt.month, .dt.day of one cell; the text of a timestamp is the
\* year it was parsed from, its date the first of January
DatePart(c, suffix) ==
    IF c.t # "ts" THEN NaN
    ELSE IF suffix = "_year" THEN Num(c.s) ELSE Num(<<"1">>)

\* the dtype of a date part: integers unless a NaT made it NaN
DatePartDtype(cells) ==
    IF \E i \in 1..Len(cells) : cells[i].t # "ts" THEN "float64" ELSE "int32"

\* lines 486-488: the three columns derived from column j of d
WithDateParts(d, j) ==
    LET cells == Column(d, j)
        name(sfx) == Str(PyStr(d.columns[j]) \o Chars(sfx))
        part(sfx) == [i \in 1..Len(cells) |-> DatePart(cells[i], sfx)]
        y == SetColumn(d, name("_year"), DatePartDtype(cells), part("_year"))
        m == SetColumn(y, name("_month"), DatePartDtype(cells), part("_month"))
    IN  SetColumn(m, name("_day"), DatePartDtype(cells), part("_day"))

\* lines 483-489: the loop over the columns the copy had when it began,
\* from the k-th on; each test reads the table as it is by then
RECURSIVE AugmentFrom(_, _, _)
AugmentFrom(d, names, k) ==
    IF k > Len(names) THEN d
    ELSE LET j == CHOOSE c \in 1..NCols(d) : d.columns[c] = names[k]
         IN  AugmentFrom(IF IsDatetimeColumn(d, j) THEN WithDateParts(d, j) ELSE d,
                         names, k + 1)

AddDateParts(d) == AugmentFrom(d, d.columns, 1)

\* a table that shares the caller's object instead of copying it
AliasRef(call) == CallerRef

\* line 480, df.copy(): a new table object for the call
CopyRef(call) == call

\* lines 14-17: statsmodels can be imported in the build, or it cannot and sm
\* is None
Builds == BOOLEAN

\* lines 492-525: the names the scope holds when it is handed to exec; sm is
\* among them only when the module's sm is not None (lines 500-501)
BaseEnv(sm) ==
    {"df", "pd", "np", "stats"} \cup (IF sm THEN {"sm"} ELSE {})
        \cup {"plt", "sns", "safe_groupby_agg"}

\* line 528: exec binds __builtins__ in the scope it is given, before it
\* compiles or runs anything of the procedure
ExecScope(env) == env \cup {"__builtins__"}

\* the statements of a procedure: df['tmp'] = 0, df.drop(df.index,
\* inplace=True), analysis_result = {...}, helper = 1
Statements == {"add_column", "drop_rows", "bind_result", "bind_name"}

\* what a statement does to the table the scope binds to df
RunOnTable(d, stmt) ==
    CASE stmt = "add_column" ->
            SetColumn(d, Str(Chars("tmp")), "int64", [i \in 1..NRows(d) |-> Num(<<"0">>)])
      [] stmt = "drop_rows" -> [d EXCEPT !.rows = <<>>]
      [] OTHER -> d

\* what a statement does to the scope
RunOnEnv(env, stmt) ==
    CASE stmt = "bind_result" -> env \cup {"analysis_result"}
      [] stmt = "bind_name" -> env \cup {"helper"}
      [] OTHER -> env

\* the value the statement analysis_result = {...} binds
BoundResult == Container("dict", <<"k">>, <<Scalar("np.float64", "1.5")>>)

NoOutcome == [exc |-> NoException, value |-> Scalar("None", "")]

TDay == Timestamp(<<"2", "0", "2", "0">>)
CNum == Num(<<"2", "0", "2", "0">>)

\* the tables _execute_analysis is called with
ExecTables ==
    { [columns |-> <<HA, HB>>, dtypes |-> <<"object", "int64">>,
       rows |-> << <<CX, CNum>> >>],
      [columns |-> <<HDay, HB>>, dtypes |-> <<"datetime64[ns]", "int64">>,
       rows |-> << <<TDay, CNum>>, <<NaT, CNum>> >>],
      [columns |-> <<HDay, Str(PyStr(HDay) \o Chars("_year"))>>,
       dtypes |-> <<"datetime64[ns]", "datetime64[ns]">>,
       rows |-> << <<TDay, TDay>> >>] }

(***************************************************************************)
(* safe_groupby_agg, the helper _execute_analysis puts in the scope of the *)
(* procedure.  A reducer map is a sequence of [col, op] pairs in insertion *)
(* order; NotAMapping stands for an argument that has no items().          *)
(***************************************************************************)
NotAMapping == << [col |-> PyNone, op |-> "none"] >>

PyNoneValue == [kind |-> "None", columns |-> <<>>, ops |-> <<>>]

HasColumn(d, col) == \E j \in 1..NCols(d) : d.columns[j] = col

ColumnIndex(d, col) == CHOOSE j \in 1..NCols(d) : d.columns[j] = col

\* a filter that keeps every column the table has
PresentInTable(d, col) == HasColumn(d, col)

\* line 512: col in dataframe.columns and not is_datetime64_any_dtype(dataframe[col])
Aggregatable(d, col) == HasColumn(d, col) /\ ~IsDatetimeColumn(d, ColumnIndex(d, col))

\* lines 510-513: safe_agg_dict, the pairs of agg_dict that pass the filter
SafeAggDict(d, agg_dict) ==
    LET idx == SortedIdx({k \in 1..Len(agg_dict) : Aggregatable(d, agg_dict[k].col)})
    IN  [k \in 1..Len(idx) |-> agg_dict[idx[k]]]

\* the reducer cannot be applied to the column: a mean of text
ReducerRaises(d, pair) ==
    pair.op = "mean" /\ d.dtypes[ColumnIndex(d, pair.col)] = "object"

\* line 519: dataframe.groupby(group_cols).agg(safe_agg_dict) raises for a
\* group column the table has not, and for a reducer it cannot apply
GroupingRaises(d, group_cols, safe) ==
    \/ ~HasColumn(d, group_cols)
    \/ \E k \in 1..Len(safe) : ReducerRaises(d, safe[k])

\* line 519: the frame .reset_index() gives: the group column, then one
\* column per pair of the map
Grouped(d, group_cols, safe) ==
    [kind |-> "frame",
     columns |-> <<group_cols>> \o [k \in 1..Len(safe) |-> safe[k].col],
     ops |-> <<"key">> \o [k \in 1..Len(safe) |-> safe[k].op]]

\* lines 521-523: the except clause of safe_groupby_agg
OnAggError == [raised |-> FALSE, value |-> PyNoneValue]

\* lines 506-523, safe_groupby_agg
SafeGroupbyAgg(d, group_cols, agg_dict) ==
    IF agg_dict = NotAMapping THEN OnAggError
    ELSE LET safe == SafeAggDict(d, agg_dict)
         IN  IF safe = <<>> THEN [raised |-> FALSE, value |-> PyNoneValue]
             ELSE IF GroupingRaises(d, group_cols, safe) THEN OnAggError
             ELSE [raised |-> FALSE, value |-> Grouped(d, group_cols, safe)]

\* the tables a procedure hands to the helper: its own table copy
AggTables == { AddDateParts(t) : t \in ExecTables }

HAbsent == Str(<<"Q">>)

GroupColumns == { HB, HAbsent }

AggPairs ==
    { [col |-> c, op |-> o] :
        c \in { HA, HDay, Str(PyStr(HDay) \o Chars("_month")), HAbsent },
        o \in { "count", "mean" } }

\* the reducer maps of at most MaxAggColumns columns, and an argument that
\* is no mapping
AggDicts ==
    { m \in SeqUpTo(AggPairs, MaxAggColumns) :
        \A j, k \in 1..Len(m) : j # k => m[j].col # m[k].col }
    \cup { NotAMapping }

AggregateIdle ==
    /\ g_pc = "idle"
    /\ g_df = EmptyDF
    /\ g_group = PyNone
    /\ g_agg = <<>>
    /\ g_out = OnAggError

ExecuteIdle ==
    /\ x_in = EmptyDF
    /\ x_heap = [r \in {CallerRef} \cup Calls |-> EmptyDF]
    /\ x_pc = [c \in Calls |-> "idle"]
    /\ x_ref = [c \in Calls |-> CallerRef]
    /\ x_env = [c \in Calls |-> {}]
    /\ x_sm = FALSE
    /\ x_hist = [c \in Calls |-> <<>>]
    /\ x_out = [c \in Calls |-> NoOutcome]

(***************************************************************************)
(* RequestClassifier.classify (classifier.py), from the reply on.  The     *)
(* content of a reply is text; the character "{" stands for the JSON text  *)
(* it carries, the field json for the value that text denotes, and the     *)
(* character "'" for a backquote.                                          *)
(***************************************************************************)
Fence == <<"'", "'", "'">>
JsonFence == Fence \o <<"j", "s", "o", "n">>

\* chars.startswith(pre), chars.endswith(suf)
StartsWith(chars, pre) ==
    Len(chars) >= Len(pre) /\ SubSeq(chars, 1, Len(pre)) = pre
EndsWith(chars, suf) ==
    Len(chars) >= Len(suf) /\ SubSeq(chars, Len(chars) - Len(suf) + 1, Len(chars)) = suf

\* lines 162-167: strip, cut a leading json fence, cut a trailing fence, strip
CleanContent(content) ==
    LET a == Strip(content)
        b == IF StartsWith(a, JsonFence) THEN SubSeq(a, Len(JsonFence) + 1, Len(a)) ELSE a
        c == IF EndsWith(b, Fence) THEN SubSeq(b, 1, Len(b) - Len(Fence)) ELSE b
    IN  Strip(c)

\* json.loads(content) succeeds: nothing but the JSON text is left, and it
\* is well formed
JsonLoadsOk(reply) ==
    CleanContent(reply.content) = <<"{">> /\ reply.json.kind # "unparsable"

\* str.lower() on the tags the model uses
LowerTag(str) ==
    CASE str = "Visualization" -> "visualization"
      [] str = "QUERY" -> "query"
      [] OTHER -> str

\* lines 160-171: [exc |-> JSONDecodeError or AttributeError was raised,
\* category |-> the category read otherwise]
ParsedCategory(reply) ==
    IF reply.content_none \/ ~JsonLoadsOk(reply) \/ reply.json.kind # "object"
    THEN [exc |-> TRUE, category |-> ""]
    ELSE IF ~reply.json.has_intent THEN [exc |-> FALSE, category |-> "statistical"]
    ELSE IF reply.json.intent.t # "str" THEN [exc |-> TRUE, category |-> ""]
    ELSE [exc |-> FALSE, category |-> LowerTag(reply.json.intent.s)]

\* line 195
ValidCategories == {"visualization", "transformation", "statistical", "query"}

\* a classifier that returns the category as read
NoValidation(category) == category

\* lines 194-198
Validate(category) ==
    IF category \notin ValidCategories THEN "statistical" ELSE category

\* lines 159-200
Classify(reply) ==
    LET parsed == ParsedCategory(reply)
    IN  Validate(IF parsed.exc THEN "statistical" ELSE parsed.category)

Intent(t, str) == [t |-> t, s |-> str]

JsonBodies ==
    { [kind |-> "unparsable", has_intent |-> FALSE, intent |-> Intent("None", "")],
      [kind |-> "array", has_intent |-> FALSE, intent |-> Intent("None", "")],
      [kind |-> "object", has_intent |-> FALSE, intent |-> Intent("None", "")],
      [kind |-> "object", has_intent |-> TRUE, intent |-> Intent("None", "")],
      [kind |-> "object", has_intent |-> TRUE, intent |-> Intent("int", "1")] }
    \cup { [kind |-> "object", has_intent |-> TRUE, intent |-> Intent("str", v)] :
             v \in ValidCategories \cup {"Visualization", "QUERY", "chat", "", " query"} }

\* the text around the JSON text: whitespace, an opening fence with or
\* without the json tag, a closing fence
Contents ==
    { pre \o open \o <<"{">> \o close \o post :
        pre \in { <<>>, <<"\n">> },
        open \in { <<>>, JsonFence \o <<"\n">>, Fence \o <<"\n">> },
        close \in { <<>>, <<"\n">> \o Fence },
        post \in { <<>>, <<"\n">> } }

\* the replies of the external capability; the last has no content
ClassifierReplies ==
    { [content_none |-> FALSE, content |-> c, json |-> j] : c \in Contents, j \in JsonBodies }
    \cup { [content_none |-> TRUE, content |-> <<>>,
            json |-> [kind |-> "unparsable", has_intent |-> FALSE,
                      intent |-> Intent("None", "")]] }

NoClassifierReply ==
    [content_none |-> TRUE, content |-> <<>>,
     json |-> [kind |-> "none", has_intent |-> FALSE, intent |-> Intent("None", "")]]

ClassifierIdle ==
    /\ c_pc = "idle"
    /\ c_reply = NoClassifierReply
    /\ c_tag = ""

(***************************************************************************)
(* The cleaning of the implementation field of a parsed synthesizer reply  *)
(* (_create_statistical_analysis, lines 448-465).                          *)
(***************************************************************************)
PythonFence == Fence \o <<"p", "y", "t", "h", "o", "n">>

\* code.replace(pre, "", 1) for a code that starts with pre
DropPrefix(code, pre) == SubSeq(code, Len(pre) + 1, Len(code))

\* lines 452-465
CleanImplementation(code) ==
    LET a == IF StartsWith(code, PythonFence) THEN DropPrefix(code, PythonFence)
             ELSE IF StartsWith(code, Fence) THEN DropPrefix(code, Fence)
             ELSE code
        b == IF EndsWith(a, Fence) THEN SubSeq(a, 1, Len(a) - Len(Fence)) ELSE a
    IN  Strip(b)

\* the texts of the implementation field: a body, with or without an
\* opening fence (bare, tagged python, tagged py) and a closing fence, with
\* or without whitespace around
ImplementationTexts ==
    { pre \o open \o body \o close \o post :
        pre \in { <<>>, <<" ">>, <<"\n">> },
        open \in { <<>>, Fence, PythonFence, Fence \o <<"p", "y">> },
        body \in { <<"x">>, <<"\n", "x", "\n">> },
        close \in { <<>>, Fence },
        post \in { <<>>, <<" ">>, <<"\n">> } }

SynthesizerIdle ==
    /\ f_pc = "idle"
    /\ f_text = <<>>
    /\ f_code = <<>>

\* no presentation stage is being run on its own
PresentIdle ==
    /\ p_pc = "idle"
    /\ p_stage = "none"
    /\ p_configs = <<>>
    /\ p_k = 0
    /\ p_in = EmptyDF
    /\ p_df = EmptyDF
    /\ p_out = <<>>

\* no profile is being built on its own
ProfilerIdle ==
    /\ q_pc = "idle"
    /\ q_df = EmptyDF
    /\ q_corr = <<>>
    /\ q_insights = <<>>

NoTransformInput == [model |-> "", message |-> "", first |-> "", fixed |-> ""]

NoTransformOutcome == [kind |-> "none", status |-> 0, operationType |-> "", built_from |-> ""]

\* no transformation request is being served
TransformerIdle ==
    /\ t_pc = "idle"
    /\ t_in = NoTransformInput
    /\ t_attrs = {}
    /\ t_calls = 0
    /\ t_execs = 0
    /\ t_out = NoTransformOutcome

NoQueryOutcome == [kind |-> "none", branch |-> "", passed |-> "", executed_code |-> FALSE]

\* no query is being answered
QueryBotIdle ==
    /\ b_pc = "idle"
    /\ b_in = [decision |-> <<>>, code |-> ""]
    /\ b_should = FALSE
    /\ b_result = ""
    /\ b_calls = 0
    /\ b_execs = 0
    /\ b_out = NoQueryOutcome

\* no chart data is being shaped
ShaperIdle ==
    /\ v_pc = "idle"
    /\ v_in = [impl |-> "", rows |-> <<>>, x |-> PyNone, y |-> PyNone, transformation |-> ""]
    /\ v_out = <<>>

\* every unit added last is idle, but the one named
LaterUnitsIdleBut(unit) ==
    /\ (unit # "profile" => ProfilerIdle)
    /\ (unit # "transform" => TransformerIdle)
    /\ (unit # "query" => QueryBotIdle)
    /\ (unit # "visualize" => ShaperIdle)

LaterUnitsIdle == LaterUnitsIdleBut("none")

ExtensionsIdleBut(unit) ==
    /\ ExecuteIdle /\ AggregateIdle /\ ClassifierIdle /\ SynthesizerIdle /\ PresentIdle
    /\ LaterUnitsIdleBut(unit)

ExtensionsIdle ==
    /\ ExecuteIdle /\ AggregateIdle /\ ClassifierIdle /\ SynthesizerIdle /\ PresentIdle
    /\ LaterUnitsIdle

(***************************************************************************)
(* The stages of analyze.  Every stage ends either in the next stage or,   *)
(* through the except clause of analyze (lines 1017-1026), in "failed".    *)
(***************************************************************************)
AnalyzeIdle ==
    /\ pc = "idle"
    /\ req = [relevantData |-> <<>>, activeSheetId |-> NoSheet,
              explicitTargetSheetId |-> NoSheet]
    /\ df = EmptyDF
    /\ profile = NoProfile
    /\ package = NoPackage
    /\ result = Scalar("None", "")
    /\ chart_reply = NoReply
    /\ charts = <<>>
    /\ table_reply = NoReply
    /\ tables = <<>>
    /\ text = ""
    /\ response = NoResponse
    /\ failure = NoFailure
    /\ llm_calls = 0
    /\ exec_count = 0
    /\ log = {}

NormalizerIdle ==
    /\ n_pc = "idle"
    /\ n_raw = <<>>
    /\ n_df = EmptyDF
    /\ n_raised = FALSE

SerializerIdle ==
    /\ s_pc = "idle"
    /\ s_obj = Scalar("None", "")
    /\ s_out = Scalar("None", "")
    /\ s_again = Scalar("None", "")

Init ==
    /\ pc = "start"
    /\ req \in Requests
    /\ df = EmptyDF
    /\ profile = NoProfile
    /\ package = NoPackage
    /\ result = Scalar("None", "")
    /\ chart_reply = NoReply
    /\ charts = <<>>
    /\ table_reply = NoReply
    /\ tables = <<>>
    /\ text = ""
    /\ response = NoResponse
    /\ failure = NoFailure
    /\ llm_calls = 0
    /\ exec_count = 0
    /\ log = {}
    /\ NormalizerIdle
    /\ SerializerIdle
    /\ ExtensionsIdle

\* lines 956-969: pick the primary sheet, normalize it, refuse an empty table
Ingest ==
    /\ pc = "start"
    /\ LET out == CreateDataframeFromRaw(SourceData(req))
       IN  /\ df' = out.df
           /\ IF out.raised
              THEN /\ pc' = "failed"
                   /\ failure' = Surface("ingest", PythonError("Exception", "ingest"))
                   /\ log' = log \cup HandlerPrints(PythonError("Exception", "ingest"))
              ELSE IF EmptyDataset(out.df)
              THEN /\ pc' = "failed"
                   /\ failure' = Surface("ingest", EmptyDatasetError)
                   /\ log' = log \cup HandlerPrints(EmptyDatasetError)
              ELSE /\ pc' = "ingested"
                   /\ UNCHANGED <<failure, log>>
    /\ UNCHANGED <<req, profile, package, result, chart_reply, charts, table_reply,
                   tables, text, response, llm_calls, exec_count>>
    /\ UNCHANGED <<nvars, svars, evars, wvars>>

\* line 972
Profile ==
    /\ pc = "ingested"
    /\ IF ProfileRaises(df)
       THEN /\ pc' = "failed"
            /\ failure' = Surface("profile", PythonError("AttributeError", "profile"))
            /\ log' = log \cup HandlerPrints(PythonError("AttributeError", "profile"))
            /\ profile' = profile
       ELSE /\ pc' = "profiled"
            /\ profile' = GenerateDataProfile(df)
            /\ UNCHANGED <<failure, log>>
    /\ UNCHANGED <<req, df, package, result, chart_reply, charts, table_reply,
                   tables, text, response, llm_calls, exec_count>>
    /\ UNCHANGED <<nvars, svars, evars, wvars>>

\* line 975, _create_statistical_analysis: one call to the capability unless
\* the table or the profile is empty
Synthesize ==
    /\ pc = "profiled"
    /\ IF DfEmpty(df) \/ profile.empty
       THEN /\ package' = EmptyPackage
            /\ llm_calls' = llm_calls
       ELSE /\ \E reply \in SynthReplies : package' = ParsePackage(reply)
            /\ llm_calls' = llm_calls + 1
    /\ pc' = "synthesized"
    /\ UNCHANGED <<req, df, profile, result, chart_reply, charts, table_reply,
                   tables, text, response, failure, exec_count, log>>
    /\ UNCHANGED <<nvars, svars, evars, wvars>>

\* lines 977-983: read the procedure of the package, run it, print the result
Execute ==
    /\ pc = "synthesized"
    /\ IF ~package.has_impl
       THEN /\ pc' = "failed"
            /\ failure' = Surface("execute", PythonError("KeyError", "implementation"))
            /\ log' = log \cup HandlerPrints(PythonError("KeyError", "implementation"))
            /\ UNCHANGED <<result, exec_count>>
       ELSE LET run == ExecuteAnalysis(package.implementation)
            IN  /\ exec_count' = exec_count + 1
                /\ IF run.exc # NoException
                   THEN /\ pc' = "failed"
                        /\ failure' = Surface("execute", run.exc)
                        /\ log' = log \cup HandlerPrints(run.exc)
                        /\ result' = result
                   ELSE IF ~JsonDumps(run.value)
                   THEN /\ pc' = "failed"
                        /\ failure' = Surface("execute", PythonError("TypeError", "json.dumps"))
                        /\ log' = log \cup HandlerPrints(PythonError("TypeError", "json.dumps"))
                        /\ result' = result
                   ELSE /\ pc' = "executed"
                        /\ result' = run.value
                        /\ UNCHANGED <<failure, log>>
    /\ UNCHANGED <<req, df, profile, package, chart_reply, charts, table_reply, tables,
                   text, response, llm_calls>>
    /\ UNCHANGED <<nvars, svars, evars, wvars>>

\* chart generation that starts from the package, before any procedure ran
ChartsBeforeExecute ==
    /\ pc = "synthesized"
    /\ pc' = "charted"
    /\ llm_calls' = llm_calls + 1
    /\ UNCHANGED <<req, df, profile, package, result, chart_reply, charts, table_reply,
                   tables, text, response, failure, exec_count, log>>
    /\ UNCHANGED <<nvars, svars, evars, wvars>>

\* line 986, _generate_visualizations
GenerateVisualizations ==
    /\ pc = "executed"
    /\ llm_calls' = llm_calls + 1
    /\ \E reply \in PresentReplies :
          /\ chart_reply' = reply
          /\ IF reply.parse = "unparsable"
             THEN /\ pc' = "failed"
                  /\ failure' = Surface("charts", PythonError("JSONDecodeError", "charts"))
                  /\ log' = log \cup HandlerPrints(PythonError("JSONDecodeError", "charts"))
                  /\ charts' = charts
                  /\ df' = df
             ELSE IF reply.parse = "not_object"
             THEN /\ pc' = "failed"
                  /\ failure' = Surface("charts", PythonError("AttributeError", "charts"))
                  /\ log' = log \cup HandlerPrints(PythonError("AttributeError", "charts"))
                  /\ charts' = charts
                  /\ df' = df
             ELSE LET run == RunDescriptors(reply.configs, df)
                  IN  /\ df' = run.df
                      /\ IF run.aborted
                         THEN /\ pc' = "failed"
                              /\ failure' = Surface("charts", PythonError("AttributeError", "charts"))
                              /\ log' = log \cup HandlerPrints(PythonError("AttributeError", "charts"))
                              /\ charts' = charts
                         ELSE /\ pc' = "charted"
                              /\ charts' = Emitted(run.emitted, PrimarySheetId(req),
                                                    TargetSheetId(req))
                              /\ UNCHANGED <<failure, log>>
    /\ UNCHANGED <<req, profile, package, result, table_reply, tables, text,
                   response, exec_count>>
    /\ UNCHANGED <<nvars, svars, evars, wvars>>

\* line 989, _generate_tables: building the prompt raises (lines 726-807), so
\* the stage calls no capability, reads no reply and returns no list
GenerateTables ==
    /\ pc = "charted"
    /\ pc' = "failed"
    /\ failure' = Surface("tables", TablesPromptError)
    /\ log' = log \cup HandlerPrints(TablesPromptError)
    /\ UNCHANGED <<req, df, profile, package, result, chart_reply, charts, table_reply,
                   tables, text, response, llm_calls, exec_count>>
    /\ UNCHANGED <<nvars, svars, evars, wvars>>

Next ==
    \/ Ingest
    \/ Profile
    \/ Synthesize
    \/ Execute
    \/ GenerateVisualizations
    \/ GenerateTables

Spec == Init /\ [][Next]_vars

(***************************************************************************)
(* The rest of analyze, lines 992-1015.  No run of Spec gets there, since  *)
(* _generate_tables never returns.  The two steps are run from the         *)
(* position analyze is in when the method _generate_tables of the agent is *)
(* replaced by one that returns a list of table descriptors and calls no   *)
(* capability.                                                             *)
(***************************************************************************)
\* the lists a replaced table generator returns
StandInTables(r) ==
    { Emitted(idx, PrimarySheetId(r), TargetSheetId(r)) : idx \in {<<>>, <<1>>} }

TailInit ==
    /\ pc = "tabled"
    /\ \E r \in Requests, synth \in SynthReplies, reply \in PresentReplies :
          LET out == CreateDataframeFromRaw(SourceData(r))
              run == ExecuteAnalysis(synth.implementation)
              loop == RunDescriptors(reply.configs, out.df)
          IN  /\ ~out.raised /\ ~EmptyDataset(out.df) /\ ~ProfileRaises(out.df)
              /\ synth.parse = "object" /\ synth.has_impl
              /\ run.exc = NoException /\ JsonDumps(run.value)
              /\ reply.parse = "object" /\ ~loop.aborted
              /\ req = r
              /\ df = loop.df
              /\ profile = GenerateDataProfile(out.df)
              /\ package = ParsePackage(synth)
              /\ result = run.value
              /\ chart_reply = reply
              /\ charts = Emitted(loop.emitted, PrimarySheetId(r), TargetSheetId(r))
              /\ tables \in StandInTables(r)
    /\ table_reply = NoReply
    /\ text = ""
    /\ response = NoResponse
    /\ failure = NoFailure
    /\ llm_calls = 2
    /\ exec_count = 1
    /\ log = {}
    /\ NormalizerIdle
    /\ SerializerIdle
    /\ ExtensionsIdle

\* lines 992-997, _generate_interpretation: analysis_result.items() needs a
\* mapping; then one call to the capability
GenerateInterpretation ==
    /\ pc = "tabled"
    /\ IF result.t # "dict"
       THEN /\ pc' = "failed"
            /\ failure' = Surface("interpret", PythonError("AttributeError", "interpret"))
            /\ log' = log \cup HandlerPrints(PythonError("AttributeError", "interpret"))
            /\ UNCHANGED <<text, llm_calls>>
       ELSE /\ pc' = "interpreted"
            /\ \E reply \in InterpretationReplies : text' = reply
            /\ llm_calls' = llm_calls + 1
            /\ UNCHANGED <<failure, log>>
    /\ UNCHANGED <<req, df, profile, package, result, chart_reply, charts,
                   table_reply, tables, response, exec_count>>
    /\ UNCHANGED <<nvars, svars, evars, wvars>>

\* lines 999-1015
Respond ==
    /\ pc = "interpreted"
    /\ response' = BuildResponse
    /\ pc' = "responded"
    /\ UNCHANGED <<req, df, profile, package, result, chart_reply, charts,
                   table_reply, tables, text, failure, llm_calls, exec_count, log>>
    /\ UNCHANGED <<nvars, svars, evars, wvars>>

TailNext == GenerateInterpretation \/ Respond

SpecTail == TailInit /\ [][TailNext]_vars

(***************************************************************************)
(* A run of the normalizer on its own.                                     *)
(***************************************************************************)
NormInit ==
    /\ n_pc = "input"
    /\ n_raw \in RawTables
    /\ n_df = EmptyDF
    /\ n_raised = FALSE
    /\ AnalyzeIdle
    /\ SerializerIdle
    /\ ExtensionsIdle

Normalize ==
    /\ n_pc = "input"
    /\ LET out == CreateDataframeFromRaw(n_raw)
       IN  /\ n_df' = out.df
           /\ n_raised' = out.raised
    /\ n_pc' = "returned"
    /\ UNCHANGED <<n_raw, svars, avars, evars, wvars>>

NormNext == Normalize

SpecNormalize == NormInit /\ [][NormNext]_vars

(***************************************************************************)
(* A run of the result normalizer on its own.                              *)
(***************************************************************************)
SerInit ==
    /\ s_pc = "input"
    /\ s_obj \in ValuesUpTo(MaxDepth)
    /\ s_out = Scalar("None", "")
    /\ s_again = Scalar("None", "")
    /\ AnalyzeIdle
    /\ NormalizerIdle
    /\ ExtensionsIdle

Serialize ==
    /\ s_pc = "input"
    /\ s_out' = MakeSerializable(s_obj)
    /\ s_pc' = "returned"
    /\ UNCHANGED <<s_obj, s_again, nvars, avars, evars, wvars>>

\* the value returned is handed to _make_serializable once more
Reserialize ==
    /\ s_pc = "returned"
    /\ s_out # Raised
    /\ s_again' = MakeSerializable(s_out)
    /\ s_pc' = "reapplied"
    /\ UNCHANGED <<s_obj, s_out, nvars, avars, evars, wvars>>

SerNext ==
    \/ Serialize
    \/ Reserialize

SpecSerialize == SerInit /\ [][SerNext]_vars

(***************************************************************************)
(* Calls of _execute_analysis on one table of the caller, under way        *)
(* together or one after the other.                                        *)
(***************************************************************************)
ExecInit ==
    /\ x_in \in ExecTables
    /\ x_heap = [r \in {CallerRef} \cup Calls |-> IF r = CallerRef THEN x_in ELSE EmptyDF]
    /\ x_pc = [c \in Calls |-> "ready"]
    /\ x_ref = [c \in Calls |-> CallerRef]
    /\ x_env = [c \in Calls |-> {}]
    /\ x_sm \in Builds
    /\ x_hist = [c \in Calls |-> <<>>]
    /\ x_out = [c \in Calls |-> NoOutcome]
    /\ AnalyzeIdle
    /\ NormalizerIdle
    /\ SerializerIdle
    /\ PresentIdle
    /\ LaterUnitsIdle
    /\ AggregateIdle
    /\ ClassifierIdle
    /\ SynthesizerIdle

\* lines 479-525: copy the table, derive the date parts, set up the scope
ExecBegin ==
    \E c \in Calls :
        /\ x_pc[c] = "ready"
        /\ x_ref' = [x_ref EXCEPT ![c] = CopyRef(c)]
        /\ x_heap' = [x_heap EXCEPT ![CopyRef(c)] = AddDateParts(x_heap[CallerRef])]
        /\ x_env' = [x_env EXCEPT ![c] = BaseEnv(x_sm)]
        /\ x_pc' = [x_pc EXCEPT ![c] = "running"]
        /\ UNCHANGED <<x_in, x_sm, x_hist, x_out, nvars, svars, avars, wvars, gvars, cvars, fvars, pvars>>

\* line 528, exec: the procedure runs one more statement
ExecStatement ==
    \E c \in Calls, stmt \in Statements :
        /\ x_pc[c] = "running"
        /\ Len(x_hist[c]) < MaxSteps
        /\ x_heap' = [x_heap EXCEPT ![x_ref[c]] = RunOnTable(x_heap[x_ref[c]], stmt)]
        /\ x_env' = [x_env EXCEPT ![c] = RunOnEnv(ExecScope(x_env[c]), stmt)]
        /\ x_hist' = [x_hist EXCEPT ![c] = Append(x_hist[c], stmt)]
        /\ UNCHANGED <<x_in, x_pc, x_ref, x_sm, x_out, nvars, svars, avars, wvars, gvars, cvars, fvars, pvars>>

\* lines 528 and 539-550: the procedure throws; the except clause raises
ExecThrow ==
    \E c \in Calls :
        /\ x_pc[c] = "running"
        /\ x_pc' = [x_pc EXCEPT ![c] = "raised"]
        /\ x_out' = [x_out EXCEPT ![c] =
                        [exc |-> ExecutionFailure(ProcedureError), value |-> Raised]]
        /\ x_env' = [x_env EXCEPT ![c] = ExecScope(x_env[c])]
        /\ UNCHANGED <<x_in, x_heap, x_ref, x_sm, x_hist, nvars, svars, avars, wvars, gvars, cvars, fvars, pvars>>

\* lines 530-550: the procedure has ended; read analysis_result from the
\* scope and normalize it, or raise for want of it
ExecFinish ==
    \E c \in Calls :
        /\ x_pc[c] = "running"
        /\ IF "analysis_result" \notin x_env[c]
           THEN /\ x_pc' = [x_pc EXCEPT ![c] = "raised"]
                /\ x_out' = [x_out EXCEPT ![c] =
                                [exc |-> ExecutionFailure(NoResultError), value |-> Raised]]
           ELSE IF MakeSerializable(BoundResult) = Raised
           THEN /\ x_pc' = [x_pc EXCEPT ![c] = "raised"]
                /\ x_out' = [x_out EXCEPT ![c] =
                                [exc |-> ExecutionFailure(SerializeError), value |-> Raised]]
           ELSE /\ x_pc' = [x_pc EXCEPT ![c] = "returned"]
                /\ x_out' = [x_out EXCEPT ![c] =
                                [exc |-> NoException, value |-> MakeSerializable(BoundResult)]]
        /\ x_env' = [x_env EXCEPT ![c] = ExecScope(x_env[c])]
        /\ UNCHANGED <<x_in, x_heap, x_ref, x_sm, x_hist, nvars, svars, avars, wvars, gvars, cvars, fvars, pvars>>

ExecNext ==
    \/ ExecBegin
    \/ ExecStatement
    \/ ExecThrow
    \/ ExecFinish

SpecExecute == ExecInit /\ [][ExecNext]_vars

(***************************************************************************)
(* A call of safe_groupby_agg on its own.                                  *)
(***************************************************************************)
AggInit ==
    /\ g_pc = "input"
    /\ g_df \in AggTables
    /\ g_group \in GroupColumns
    /\ g_agg \in AggDicts
    /\ g_out = OnAggError
    /\ AnalyzeIdle
    /\ NormalizerIdle
    /\ SerializerIdle
    /\ PresentIdle
    /\ LaterUnitsIdle
    /\ ExecuteIdle
    /\ ClassifierIdle
    /\ SynthesizerIdle

Aggregate ==
    /\ g_pc = "input"
    /\ g_out' = SafeGroupbyAgg(g_df, g_group, g_agg)
    /\ g_pc' = "returned"
    /\ UNCHANGED <<g_df, g_group, g_agg, nvars, svars, avars, wvars, xvars, cvars, fvars, pvars>>

AggNext == Aggregate

SpecAggregate == AggInit /\ [][AggNext]_vars

(***************************************************************************)
(* A call of RequestClassifier.classify, from the reply on.                *)
(***************************************************************************)
ClassifyInit ==
    /\ c_pc = "input"
    /\ c_reply \in ClassifierReplies
    /\ c_tag = ""
    /\ AnalyzeIdle
    /\ NormalizerIdle
    /\ SerializerIdle
    /\ PresentIdle
    /\ LaterUnitsIdle
    /\ ExecuteIdle
    /\ AggregateIdle
    /\ SynthesizerIdle

ClassifyReply ==
    /\ c_pc = "input"
    /\ c_tag' = Classify(c_reply)
    /\ c_pc' = "returned"
    /\ UNCHANGED <<c_reply, nvars, svars, avars, wvars, xvars, gvars, fvars, pvars>>

ClassifyNext == ClassifyReply

SpecClassify == ClassifyInit /\ [][ClassifyNext]_vars

(***************************************************************************)
(* The cleaning of one implementation field on its own.                    *)
(***************************************************************************)
ParseInit ==
    /\ f_pc = "input"
    /\ f_text \in ImplementationTexts
    /\ f_code = <<>>
    /\ AnalyzeIdle
    /\ NormalizerIdle
    /\ SerializerIdle
    /\ PresentIdle
    /\ LaterUnitsIdle
    /\ ExecuteIdle
    /\ AggregateIdle
    /\ ClassifierIdle

ParseReply ==
    /\ f_pc = "input"
    /\ f_code' = CleanImplementation(f_text)
    /\ f_pc' = "returned"
    /\ UNCHANGED <<f_text, nvars, svars, avars, wvars, xvars, gvars, cvars, pvars>>

ParseNext == ParseReply

SpecParse == ParseInit /\ [][ParseNext]_vars

(***************************************************************************)
(* The loop of _generate_visualizations on its own: the reply has parsed   *)
(* to a list of descriptors and the stage walks it, one iteration per      *)
(* step, on the table it was called with.  The loop of _generate_tables    *)
(* (lines 831-900) is built the same way but is never entered, its prompt  *)
(* failing first.                                                          *)
(***************************************************************************)
Stages == {"charts"}

DescriptorLists == SeqUpTo(DescriptorKinds, MaxDescriptors)

PresentInit ==
    /\ p_pc = "looping"
    /\ p_stage \in Stages
    /\ p_configs \in DescriptorLists
    /\ p_k = 0
    /\ p_in \in ExecTables
    /\ p_df = p_in
    /\ p_out = <<>>
    /\ AnalyzeIdle
    /\ NormalizerIdle
    /\ SerializerIdle
    /\ ExecuteIdle
    /\ AggregateIdle
    /\ ClassifierIdle
    /\ SynthesizerIdle
    /\ LaterUnitsIdle

\* lines 639-704: one iteration of the loop
PresentDescriptor ==
    /\ p_pc = "looping"
    /\ p_k < Len(p_configs)
    /\ LET step == StepDescriptor(p_configs[p_k + 1], p_df)
       IN  /\ p_df' = step.df
           /\ p_out' = IF step.emit THEN Append(p_out, p_k + 1) ELSE p_out
           /\ p_pc' = IF step.abort THEN "raised" ELSE "looping"
    /\ p_k' = p_k + 1
    /\ UNCHANGED <<p_stage, p_configs, p_in, nvars, svars, avars, wvars, xvars, gvars, cvars,
                   fvars>>

\* line 706: the list is exhausted and the stage returns
PresentReturn ==
    /\ p_pc = "looping"
    /\ p_k = Len(p_configs)
    /\ p_pc' = "returned"
    /\ UNCHANGED <<p_stage, p_configs, p_k, p_in, p_df, p_out, nvars, svars, avars, wvars,
                   xvars, gvars, cvars, fvars>>

PresentNext == PresentDescriptor \/ PresentReturn

SpecPresent == PresentInit /\ [][PresentNext]_vars

(***************************************************************************)
(* The correlation block of _generate_data_profile and the correlation     *)
(* insights of _generate_data_insights.  A correlation value is kept in    *)
(* thousandths, as .round(3) leaves it; nan marks an undefined one.        *)
(***************************************************************************)
\* the value of a sequence of decimal digits
RECURSIVE NumValue(_)
NumValue(digits) ==
    IF digits = <<>> THEN 0
    ELSE 10 * NumValue(SubSeq(digits, 1, Len(digits) - 1))
         + (CHOOSE v \in 0..9 : ToString(v) = digits[Len(digits)])

RECURSIVE SumOver(_, _)
SumOver(f, n) == IF n = 0 THEN 0 ELSE SumOver(f, n - 1) + f[n]

\* line 187, DataFrame.corr().round(3) for one pair of columns without null
\* cells: Pearson's r of the value vectors x and y in thousandths, the
\* nearest k with (k - 1/2)^2 <= 10^6 r^2 < (k + 1/2)^2, and nan when one
\* vector is constant
Pearson(x, y) ==
    LET n   == Len(x)
        sx  == SumOver(x, n)
        sy  == SumOver(y, n)
        cov == n * SumOver([i \in 1..n |-> x[i] * y[i]], n) - sx * sy
        vx  == n * SumOver([i \in 1..n |-> x[i] * x[i]], n) - sx * sx
        vy  == n * SumOver([i \in 1..n |-> y[i] * y[i]], n) - sy * sy
        k   == CHOOSE m \in 0..1000 :
                  /\ 4000000 * cov * cov < (2 * m + 1) * (2 * m + 1) * vx * vy
                  /\ (m = 0 \/ (2 * m - 1) * (2 * m - 1) * vx * vy <= 4000000 * cov * cov)
    IN  IF vx * vy = 0 THEN [nan |-> TRUE, milli |-> 0]
        ELSE [nan |-> FALSE, milli |-> IF cov < 0 THEN 0 - k ELSE k]

\* lines 145-146: the positions of the columns is_numeric_dtype accepts
NumericPositions(d) == SortedIdx({j \in 1..NCols(d) : d.dtypes[j] \in NumericDtypes})

\* a guard that asks for one numeric column only
AtLeastOneNumeric(num) == Len(num) >= 1

\* line 185: len(profile["numeric_columns"]) >= 2
AtLeastTwoNumeric(num) == Len(num) >= 2

\* lines 185-202: correlation_data, None (PyNone) unless the guard passes,
\* else one triple per cell of the matrix, row by row
CorrelationData(d) ==
    LET num == NumericPositions(d)
        m   == Len(num)
        vec(j) == [i \in 1..NRows(d) |-> NumValue(d.rows[i][j].s)]
    IN  IF ~AtLeastTwoNumeric(num) THEN PyNone
        ELSE [t |-> "list",
              s |-> [c \in 1..(m * m) |->
                       LET i == ((c - 1) \div m) + 1
                           j == ((c - 1) % m) + 1
                       IN  [x |-> d.columns[num[i]], y |-> d.columns[num[j]],
                            value |-> Pearson(vec(num[i]), vec(num[j]))]]]

\* abs(value) > 0.7; a comparison with nan is false
Above07(value) ==
    ~value.nan /\ (value.milli > 700 \/ value.milli < 0 - 700)

\* lines 214-222: the correlation insights, one per reported triple
CorrelationInsights(corr) ==
    IF corr = PyNone THEN <<>>
    ELSE LET idx  == SortedIdx({c \in 1..Len(corr.s) :
                         corr.s[c].x # corr.s[c].y /\ Above07(corr.s[c].value)})
             high == [r \in 1..Len(idx) |-> corr.s[idx[r]]]
         IN  SubSeq(high, 1, IF Len(high) < 3 THEN Len(high) ELSE 3)

\* the columns a profiled table is made of: a dtype and three cells
ProfileColumns ==
    { [dtype |-> "int64", cells |-> <<Num(<<"0">>), Num(<<"1">>), Num(<<"2">>)>>],
      [dtype |-> "int64", cells |-> <<Num(<<"0">>), Num(<<"0">>), Num(<<"1">>)>>],
      [dtype |-> "int64", cells |-> <<Num(<<"0">>), Num(<<"0">>), Num(<<"2">>)>>],
      [dtype |-> "int64", cells |-> <<Num(<<"2">>), Num(<<"1">>), Num(<<"0">>)>>],
      [dtype |-> "int64", cells |-> <<Num(<<"0">>), Num(<<"1">>), Num(<<"0">>)>>],
      [dtype |-> "int64", cells |-> <<Num(<<"1">>), Num(<<"1">>), Num(<<"1">>)>>],
      [dtype |-> "object", cells |-> <<CX, CX, CX>>] }

ProfileNames == <<HA, HB, Str(<<"C">>), HDay>>

\* the table with the given columns, named in order
ProfileTable(cols) ==
    [columns |-> [j \in 1..Len(cols) |-> ProfileNames[j]],
     dtypes  |-> [j \in 1..Len(cols) |-> cols[j].dtype],
     rows    |-> [i \in 1..3 |-> [j \in 1..Len(cols) |-> cols[j].cells[i]]]]

ProfileTables ==
    { ProfileTable(cols) : cols \in SeqUpTo(ProfileColumns, MaxProfileColumns) \ {<<>>} }

ProfileInit ==
    /\ q_pc = "input"
    /\ q_df \in ProfileTables
    /\ q_corr = <<>>
    /\ q_insights = <<>>
    /\ AnalyzeIdle
    /\ NormalizerIdle
    /\ SerializerIdle
    /\ ExtensionsIdleBut("profile")

\* lines 117-207 with the call of line 205
ProfileTableStep ==
    /\ q_pc = "input"
    /\ q_corr' = CorrelationData(q_df)
    /\ q_insights' = CorrelationInsights(CorrelationData(q_df))
    /\ q_pc' = "returned"
    /\ UNCHANGED <<q_df, q_rest>>

ProfileNext == ProfileTableStep

SpecProfile == ProfileInit /\ [][ProfileNext]_vars

(***************************************************************************)
(* DataTransformationAgent.analyze (transformation.py): one generated      *)
(* procedure is executed; when that fails, the except block asks for a     *)
(* corrected one and executes it.  A procedure is modelled by what its     *)
(* execution leaves as result_df.                                          *)
(***************************************************************************)
\* result_df is a DataFrame, a Series, a value pd.DataFrame() rejects, not
\* bound at all, or the procedure throws
ProcedureOutcomes == {"frame", "series", "unconvertible", "no_result", "throws"}

\* lines 228-243 and 320-335: the execution ends without an exception
ProducesResult(outcome) == outcome \in {"frame", "series"}

Messages == {"filter rows", "group by region", "sort by sales", "double the sales"}

\* lines 252-258: the operation type guessed from the request text
OperationType(message) ==
    CASE message = "filter rows" -> "filter"
      [] message = "group by region" -> "aggregate"
      [] message = "sort by sales" -> "sort"
      [] OTHER -> "transformation"

\* lines 11-29, __init__: the attributes either branch sets on the agent
InitAttributes(model) == {"client", "model"}

TransformInputs ==
    [model : {"TOGETHER", "OPENAI"}, message : Messages,
     first : ProcedureOutcomes, fixed : ProcedureOutcomes]

TransformInit ==
    /\ t_pc = "start"
    /\ t_in \in TransformInputs
    /\ t_attrs = InitAttributes(t_in.model)
    /\ t_calls = 0
    /\ t_execs = 0
    /\ t_out = NoTransformOutcome
    /\ AnalyzeIdle
    /\ NormalizerIdle
    /\ SerializerIdle
    /\ ExtensionsIdleBut("transform")

\* lines 360-368: the outer handler turns whatever was raised into a 500
TransformFailure ==
    [kind |-> "error", status |-> StatusServerError, operationType |-> "", built_from |-> ""]

\* lines 188-220: the first procedure is obtained through self.client
TransformGenerate ==
    /\ t_pc = "start"
    /\ IF "client" \in t_attrs
       THEN t_pc' = "generated" /\ t_calls' = t_calls + 1 /\ t_out' = t_out
       ELSE t_pc' = "failed" /\ t_calls' = t_calls /\ t_out' = TransformFailure
    /\ UNCHANGED <<t_in, t_attrs, t_execs, t_rest>>

\* lines 222-266: the first procedure is executed; a result makes the response
TransformExecute ==
    /\ t_pc = "generated"
    /\ t_execs' = t_execs + 1
    /\ IF ProducesResult(t_in.first)
       THEN /\ t_pc' = "responded"
            /\ t_out' = [kind |-> "response", status |-> 0,
                         operationType |-> OperationType(t_in.message),
                         built_from |-> "first"]
       ELSE /\ t_pc' = "first_failed"
            /\ t_out' = t_out
    /\ UNCHANGED <<t_in, t_attrs, t_calls, t_rest>>

\* lines 268-358, the except block: the corrected procedure is asked for
\* through self.openai_client (line 286) and executed once (line 317); an
\* exception raised in the block reaches the outer handler
TransformRepair ==
    /\ t_pc = "first_failed"
    /\ IF "openai_client" \notin t_attrs
       THEN /\ t_pc' = "failed"
            /\ t_out' = TransformFailure
            /\ UNCHANGED <<t_calls, t_execs>>
       ELSE /\ t_calls' = t_calls + 1
            /\ t_execs' = t_execs + 1
            /\ IF ProducesResult(t_in.fixed)
               THEN /\ t_pc' = "responded"
                    /\ t_out' = [kind |-> "response", status |-> 0,
                                 operationType |-> "transformation",
                                 built_from |-> "fixed"]
               ELSE /\ t_pc' = "failed"
                    /\ t_out' = TransformFailure
    /\ UNCHANGED <<t_in, t_attrs, t_rest>>

TransformNext == TransformGenerate \/ TransformExecute \/ TransformRepair

SpecTransform == TransformInit /\ [][TransformNext]_vars

(***************************************************************************)
(* QueryBot.analyze (query_bot.py) from the decision on: the reply that    *)
(* says whether code is needed, the generated code, its two executions and *)
(* the answer.  The generated code is modelled by what its executions do.  *)
(***************************************************************************)
NeedsCode == <<"n", "e", "e", "d", "s", "_", "c", "o", "d", "e">>
NoCode == <<"n", "o", "_", "c", "o", "d", "e">>

\* the decision replies of the reasoning capability
Decisions ==
    { NeedsCode, NoCode, <<" ">> \o NoCode \o <<"\n">>, <<"n", "o">>, <<"y", "e", "s">>, <<>> }

\* what the generated code is: it defines analyze_data, which returns a
\* value or throws when called; it binds response_data at top level, from
\* df or not; it does both; it defines nothing; it throws when executed
CodeKinds ==
    { "function", "function_throws", "response_data", "response_data_from_df",
      "function_and_response_data", "nothing", "throws" }

\* lines 320-321: decision = content.strip().lower();
\* should_execute_code = "needs_code" in decision or "code" in decision
ShouldExecuteCode(content) ==
    LET decision == Lower(Strip(content))
    IN  Contains(decision, NeedsCode) \/ Contains(decision, <<"c", "o", "d", "e">>)

\* lines 376-394: the code is executed without df in scope and analyze_data,
\* if defined, is called with the table
RunFunction(code) ==
    CASE code \in {"function", "function_and_response_data"} -> "value_of_analyze_data"
      [] OTHER -> "error_dict"

\* lines 396-415: the code is executed again with df in scope and
\* analysis_result is assigned in every branch
RunScript(code, earlier) ==
    CASE code \in {"response_data", "response_data_from_df", "function_and_response_data"} ->
             "value_of_response_data"
      [] code = "throws" -> "error_text"
      [] OTHER -> "no_specific_results_text"

QueryInit ==
    /\ b_pc = "summarized"
    /\ b_in \in [decision : Decisions, code : CodeKinds]
    /\ b_should = FALSE
    /\ b_result = ""
    /\ b_calls = 0
    /\ b_execs = 0
    /\ b_out = NoQueryOutcome
    /\ AnalyzeIdle
    /\ NormalizerIdle
    /\ SerializerIdle
    /\ ExtensionsIdleBut("query")

\* lines 307-321
QueryDecide ==
    /\ b_pc = "summarized"
    /\ b_calls' = b_calls + 1
    /\ b_should' = ShouldExecuteCode(b_in.decision)
    /\ b_pc' = "decided"
    /\ UNCHANGED <<b_in, b_result, b_execs, b_out, b_rest>>

\* lines 324-374
QueryGenerate ==
    /\ b_pc = "decided"
    /\ b_should
    /\ b_calls' = b_calls + 1
    /\ b_pc' = "generated"
    /\ UNCHANGED <<b_in, b_should, b_result, b_execs, b_out, b_rest>>

\* lines 376-394
QueryRunFunction ==
    /\ b_pc = "generated"
    /\ b_execs' = b_execs + 1
    /\ b_result' = RunFunction(b_in.code)
    /\ b_pc' = "function_run"
    /\ UNCHANGED <<b_in, b_should, b_calls, b_out, b_rest>>

\* lines 396-415
QueryRunScript ==
    /\ b_pc = "function_run"
    /\ b_execs' = b_execs + 1
    /\ b_result' = RunScript(b_in.code, b_result)
    /\ b_pc' = "script_run"
    /\ UNCHANGED <<b_in, b_should, b_calls, b_out, b_rest>>

\* lines 417-446 and 473-482: the answer is formulated from analysis_result
QueryAnswerFromResult ==
    /\ b_pc = "script_run"
    /\ b_calls' = b_calls + 1
    /\ b_out' = [kind |-> "response", branch |-> "from_result", passed |-> b_result,
                 executed_code |-> b_should]
    /\ b_pc' = "responded"
    /\ UNCHANGED <<b_in, b_should, b_result, b_execs, b_rest>>

\* lines 448-482: the answer is formulated from the data summary alone
QueryAnswerDirect ==
    /\ b_pc = "decided"
    /\ ~b_should
    /\ b_calls' = b_calls + 1
    /\ b_out' = [kind |-> "response", branch |-> "direct", passed |-> "",
                 executed_code |-> b_should]
    /\ b_pc' = "responded"
    /\ UNCHANGED <<b_in, b_should, b_result, b_execs, b_rest>>

QueryNext ==
    \/ QueryDecide \/ QueryGenerate \/ QueryRunFunction \/ QueryRunScript
    \/ QueryAnswerFromResult \/ QueryAnswerDirect

SpecQuery == QueryInit /\ [][QueryNext]_vars

(***************************************************************************)
(* transform_data_for_visualization, the method of DataVizualizationAgent  *)
(* (visualization.py) and the function of chat.py, on raw data in the      *)
(* header-array form with the header A, B and at most fifty rows.  A data  *)
(* point keeps the rows it was made from; an invented point has none.      *)
(***************************************************************************)
VizHeader == <<HA, HB>>

\* the position of the column named name, 0 when the header has none
VizColumn(name) ==
    IF \E j \in 1..Len(VizHeader) : VizHeader[j] = name
    THEN CHOOSE j \in 1..Len(VizHeader) : VizHeader[j] = name
    ELSE 0

\* pd.DataFrame(raw_data[1:], columns=headers) raises for a row longer
\* than the header
FrameRaises(rows) == \E i \in 1..Len(rows) : Len(rows[i]) > Len(VizHeader)

\* float(value) succeeds
FloatOk(c) == c.t = "str" /\ IsDigit(DropFirstDot(c.s))

\* lines 213-218 (chat.py lines 149-153): the fallback data of the handler
FallbackPoints ==
    [i \in 1..21 |->
        [name |-> Str(<<"2", "0", ToString((i - 1) \div 10), ToString((i - 1) % 10)>>),
         rows |-> {},
         col |-> Str(<<"v", "a", "l", "u", "e">>),
         has |-> TRUE,
         value |-> (i - 1) * 2 + 10]]

\* a point made of the rows given
Point(name, rows, col, has, value) ==
    [name |-> name, rows |-> rows, col |-> col, has |-> has, value |-> value]

\* visualization.py lines 164-181: one point per row whose x cell is not
\* null, with the y value when float() takes it
DirectPoints(rows, x, y) ==
    LET jx   == VizColumn(x)
        jy   == VizColumn(y)
        kept == SortedIdx({i \in 1..Len(rows) : jx # 0 /\ ~IsNull(rows[i][jx])})
    IN  [r \in 1..Len(kept) |->
            LET row == rows[kept[r]]
                has == jy # 0 /\ FloatOk(row[jy])
            IN  Point(row[jx], {kept[r]}, y, has, IF has THEN NumValue(row[jy].s) ELSE 0)]

\* the place of a group key in the sorted order groupby yields
KeyRank(key) == IF key = CX THEN 1 ELSE 2

\* visualization.py lines 90-161: one point per group of rows with the same
\* non-null key, in key order, the y cells coerced to numbers and summed
GroupedPoints(rows, y) ==
    LET jy     == VizColumn(y)
        keys   == {rows[i][1] : i \in {k \in 1..Len(rows) : ~IsNull(rows[k][1])}}
        member(key) == {i \in 1..Len(rows) : rows[i][1] = key}
        first(key) == CHOOSE i \in member(key) : \A k \in member(key) : i <= k
        ordered == SortedIdx({KeyRank(key) : key \in keys})
        firsts == [r \in 1..Len(ordered) |->
                      first(CHOOSE key \in keys : KeyRank(key) = ordered[r])]
        total(S) == SumOver([i \in 1..Len(rows) |->
                        IF i \in S /\ FloatOk(rows[i][jy]) THEN NumValue(rows[i][jy].s)
                        ELSE 0], Len(rows))
    IN  IF jy = 0 THEN <<>>
        ELSE [r \in 1..Len(firsts) |->
                 LET key == rows[firsts[r]][1]
                 IN  Point(Str(PyStr(key)), member(key), y, TRUE, total(member(key)))]

\* visualization.py lines 53-218
AgentTransform(in) ==
    IF in.transformation = "null" \/ FrameRaises(in.rows) THEN FallbackPoints
    ELSE IF in.transformation = "group_by_A" THEN GroupedPoints(in.rows, in.y)
    ELSE DirectPoints(in.rows, in.x, in.y)

\* chat.py lines 65-154: row[x_axis_column] and float(row[col]) raise for an
\* absent column and for a value float() rejects
ChatTransform(in) ==
    LET jx == VizColumn(in.x)
        jy == VizColumn(in.y)
    IN  IF \/ FrameRaises(in.rows)
           \/ jx = 0
           \/ jy = 0
           \/ \E i \in 1..Len(in.rows) : ~FloatOk(in.rows[i][jy])
        THEN FallbackPoints
        ELSE [i \in 1..Len(in.rows) |->
                 Point(IF in.rows[i][jx] = PyNone
                       THEN Str(<<"U", "n", "k", "n", "o", "w", "n">>)
                       ELSE in.rows[i][jx],
                       {i}, in.y, TRUE, NumValue(in.rows[i][jy].s))]

VizRows ==
    { <<a, b>> : a \in {CX, Str(<<"y">>), PyNone},
                 b \in {Str(<<"1">>), Str(<<"2">>), Str(<<"n">>), Str(<<>>)} }
    \cup { <<CX, Str(<<"1">>), Str(<<"1">>)>> }

VizInputs ==
    [impl : {"agent", "chat"},
     rows : { r \in SeqUpTo(VizRows, MaxVizRows) : r # <<>> },
     x : {HA, Str(<<"Z">>)},
     y : {HB, Str(<<"Z">>)},
     transformation : {"absent", "null", "group_by_A"}]

VisualizeInit ==
    /\ v_pc = "input"
    /\ v_in \in VizInputs
    /\ v_out = <<>>
    /\ AnalyzeIdle
    /\ NormalizerIdle
    /\ SerializerIdle
    /\ ExtensionsIdleBut("visualize")

TransformDataForVisualization ==
    /\ v_pc = "input"
    /\ v_out' = IF v_in.impl = "agent" THEN AgentTransform(v_in) ELSE ChatTransform(v_in)
    /\ v_pc' = "returned"
    /\ UNCHANGED <<v_in, v_rest>>

VisualizeNext == TransformDataForVisualization

SpecVisualize == VisualizeInit /\ [][VisualizeNext]_vars

(***************************************************************************)
(* Claims about the tabular normalizer, checked under SpecNormalize.       *)
(***************************************************************************)
\* every row holds one cell per column, and every column has a dtype
Rectangular(d) ==
    /\ Len(d.dtypes) = NCols(d)
    /\ \A i \in 1..NRows(d) : Len(d.rows[i]) = NCols(d)

\* C6: _create_dataframe_from_raw never raises; for every raw input it
\* returns a table, and the table is the empty one (no rows, no columns) for
\* empty input and whenever its try block failed.
C6_NormalizerNeverRaises ==
    n_pc = "returned" =>
        /\ ~n_raised
        /\ Rectangular(n_df)
        /\ (n_raw = <<>> => n_df = EmptyDF)
        /\ (n_raw # <<>> /\ TryBody(n_raw).exc => n_df = EmptyDF)

\* C6 witness: the normalizer has returned from a raw table with a header
\* and a data row on which its try block failed.
C6_Witness ==
    /\ n_pc = "returned"
    /\ Len(n_raw) >= 2
    /\ TryBody(n_raw).exc
    /\ ~n_raised
    /\ n_df = EmptyDF

\* C7: the table returned has no row whose cells are all null and, when it
\* has rows, no column whose cells are all null.
C7_NoAllNullRowOrColumn ==
    n_pc = "returned" =>
        /\ \A i \in 1..NRows(n_df) : \E j \in 1..NCols(n_df) : ~IsNull(n_df.rows[i][j])
        /\ NRows(n_df) > 0 =>
              \A j \in 1..NCols(n_df) : \E i \in 1..NRows(n_df) : ~IsNull(n_df.rows[i][j])

\* C8: the column names of the table returned are non-empty and pairwise
\* distinct.
C8_ColumnNamesNonEmptyUnique ==
    n_pc = "returned" =>
        /\ \A j \in 1..NCols(n_df) :
              n_df.columns[j].t = "str" /\ n_df.columns[j].s # <<>>
        /\ \A j, k \in 1..NCols(n_df) : j # k => n_df.columns[j] # n_df.columns[k]

\* a cell that is null or blank once trimmed
BlankCell(c) == c.t = "None" \/ (c.t = "str" /\ Strip(c.s) = <<>>)

\* raw_data in header-array form: a header row and data rows, all lists
HeaderArrayForm(raw) == raw # <<>> /\ \A i \in 1..Len(raw) : raw[i].k = "list"

\* the columns of a header-array table whose header is neither null nor blank
RetainedColumns(raw) ==
    {c \in 1..Len(raw[1].cells) : ~BlankCell(raw[1].cells[c])}

\* the data rows that are not shorter than the header row and hold a cell
\* that is neither null nor blank in a retained column
RemainingRows(raw) ==
    {r \in 2..Len(raw) :
        /\ Len(raw[r].cells) >= Len(raw[1].cells)
        /\ \E c \in RetainedColumns(raw) : ~BlankCell(raw[r].cells[c])}

\* C9: for header-array input the table returned has no column of a null or
\* blank header, and its rows are exactly the data rows that are not shorter
\* than the header row and are not null or blank in every retained column.
C9_HeaderArrayRowsRetained ==
    (n_pc = "returned" /\ HeaderArrayForm(n_raw)) =>
        /\ NCols(n_df) <= Cardinality(RetainedColumns(n_raw))
        /\ NRows(n_df) = Cardinality(RemainingRows(n_raw))

(***************************************************************************)
(* Claims about the result normalizer, checked under SpecSerialize.        *)
(***************************************************************************)
\* a JSON primitive that is neither NaN nor an infinity
JsonPrimitive(v) ==
    \/ v.t \in {"None", "str", "int", "bool"}
    \/ v.t = "float" /\ v.s \notin {"nan", "inf", "-inf"}

\* a tree of mappings and sequences whose leaves are all JSON primitives
RECURSIVE JsonSafe(_)
JsonSafe(v) ==
    IF v.t \in {"dict", "list"}
    THEN \A i \in 1..Len(v.items) : JsonSafe(v.items[i])
    ELSE JsonPrimitive(v)

\* C10: the value _make_serializable returns holds no NaN and no infinity at
\* any depth, and every leaf of it is a JSON primitive.
C10_OutputJsonSafe ==
    (s_pc = "returned" /\ s_out # Raised) => JsonSafe(s_out)

(***************************************************************************)
(* Claims about the pipeline controller, checked under Spec.               *)
(***************************************************************************)
\* analyze has ended: with a response, or with an error for the caller
Ended == pc \in {"responded", "failed"}

\* the synthesized procedure was run and threw
ProcedureThrew == exec_count > 0 /\ package.has_impl /\ package.implementation.throws

\* C1: when the table has a row and the synthesized procedure throws,
\* analyze still ends with a response whose text is not empty and whose
\* rows_analyzed is the number of rows of the table.
C1_FallbackAfterThrowingProcedure ==
    (Ended /\ NRows(df) >= 1 /\ ProcedureThrew) =>
        /\ response.kind = "response"
        /\ response.text # ""
        /\ response.rows_analyzed = NRows(df)

\* C2: the package made from a reply that cannot be parsed still holds an
\* executable procedure, so the Execute stage runs a procedure.
C2_DegeneratePackageHasProcedure ==
    (pc \notin {"start", "ingested", "profiled"} /\ llm_calls > 0 /\ ~package.parsed) =>
        /\ package.has_impl
        /\ (pc # "synthesized" => exec_count > 0)

\* the reply a generator of the Present stage received was unparsable or not
\* of the expected shape (the table generator never receives one)
PresentFailedAsAWhole ==
    \/ chart_reply.parse \in {"unparsable", "not_object"}
    \/ table_reply.parse \in {"unparsable", "not_object"}

\* C3: for a table that is not empty, a failure of the Present stage as a
\* whole does not abort the request; analyze surfaces an error only for an
\* empty table.
C3_PresentFailureDoesNotAbort ==
    (PresentFailedAsAWhole /\ NRows(df) > 0 /\ NCols(df) > 0) => pc # "failed"

\* C4: when the primary sheet normalizes to an empty table, analyze ends
\* with the empty-dataset error surfaced to the caller, and has made no call
\* to the external capability, run no procedure and built no response.
C4_EmptyTableFailsBeforeAnyWork ==
    LET normalized == CreateDataframeFromRaw(SourceData(req)).df
    IN  (pc # "start" /\ (NRows(normalized) = 0 \/ NCols(normalized) = 0)) =>
        /\ pc = "failed"
        /\ failure.stage = "ingest"
        /\ failure.raised = EmptyDatasetError
        /\ llm_calls = 0
        /\ exec_count = 0
        /\ package = NoPackage
        /\ response = NoResponse

\* C4 witness: a sheet with a header and a data row has normalized to an
\* empty table and analyze has ended with the error.
C4_Witness ==
    /\ pc = "failed"
    /\ Len(SourceData(req)) >= 2
    /\ NRows(df) = 0
    /\ failure.raised = EmptyDatasetError
    /\ llm_calls = 0

\* C5: when the execution of the procedure fails, what analyze hands to the
\* caller holds neither the message of the execution error nor its trace;
\* the log holds them.
C5_DiagnosticNotShownToCaller ==
    (pc = "failed" /\ ProcedureThrew) =>
        /\ "proc_message" \notin Payload(failure)
        /\ "proc_trace" \notin Payload(failure)
        /\ "proc_message" \in log

(***************************************************************************)
(* Further claims about the result normalizer, checked under SpecSerialize.*)
(***************************************************************************)
\* C11: _make_serializable is idempotent: applied to its own output it
\* returns that output unchanged.
C11_SerializeIdempotent ==
    s_pc = "reapplied" => s_again = s_out

\* C12: _make_serializable never raises, and a value of an unknown type
\* comes back as its string representation.
C12_SerializeTotal ==
    s_pc \in {"returned", "reapplied"} =>
        /\ s_out # Raised
        /\ (s_obj.t = "object" => s_out = Scalar("str", StrOf(s_obj)))

(***************************************************************************)
(* Claims about the execution sandbox, checked under SpecExecute.          *)
(***************************************************************************)
\* the call has begun: its table copy and its scope exist
Begun(c) == x_pc[c] \in {"running", "returned", "raised"}

\* the procedure of the call threw
Threw(c) == x_out[c].exc = ExecutionFailure(ProcedureError)

\* C13: a call of _execute_analysis raises only when its procedure threw
\* and its scope binds no analysis_result.
C13_RaisesOnlyWithoutResult ==
    \A c \in Calls :
        x_pc[c] = "raised" => (Threw(c) /\ "analysis_result" \notin x_env[c])

\* the table a procedure leaves after running the statements of hist on d
RECURSIVE Replay(_, _)
Replay(d, hist) ==
    IF hist = <<>> THEN d
    ELSE RunOnTable(Replay(d, SubSeq(hist, 1, Len(hist) - 1)), hist[Len(hist)])

\* the names a procedure has bound after running the statements of hist
Bound(hist) ==
    {"analysis_result" : i \in {k \in 1..Len(hist) : hist[k] = "bind_result"}}
    \cup {"helper" : i \in {k \in 1..Len(hist) : hist[k] = "bind_name"}}

\* C14: the caller's table is never changed by a call, whether its procedure
\* ends or throws, and the table and the scope of every call hold what its
\* own procedure wrote and nothing any other call wrote.
C14_CallsAreIsolated ==
    /\ x_heap[CallerRef] = x_in
    /\ \A c \in Calls :
          Begun(c) =>
              /\ x_heap[x_ref[c]] = Replay(AddDateParts(x_in), x_hist[c])
              /\ x_env[c] \ {"__builtins__"} = BaseEnv(x_sm) \cup Bound(x_hist[c])

\* C14 witness: one call has thrown after changing its table, the other has
\* returned after changing its own, and the caller's table is as it was.
C14_Witness ==
    /\ x_pc[1] = "raised" /\ Threw(1)
    /\ x_hist[1] = <<"add_column", "drop_rows">>
    /\ x_pc[2] = "returned"
    /\ x_hist[2] = <<"bind_result", "add_column">>
    /\ x_heap[x_ref[1]] # x_heap[x_ref[2]]
    /\ x_heap[CallerRef] = x_in
    /\ NRows(x_in) > 0

\* the name of the column derived from column j of d with the suffix sfx
DerivedName(d, j, sfx) == Str(PyStr(d.columns[j]) \o Chars(sfx))

DateSuffixes == {"_year", "_month", "_day"}

\* C16: before the procedure runs, the table copy of a call holds c_year,
\* c_month and c_day for every temporal column c of the table passed in and
\* no other column beside those of the table passed in; the caller's table
\* has the columns it had.
C16_DatePartsDerived ==
    \A c \in Calls :
        (Begun(c) /\ x_hist[c] = <<>>) =>
            LET w == x_heap[x_ref[c]]
                has(name) == \E k \in 1..NCols(w) : w.columns[k] = name
                temporal == {j \in 1..NCols(x_in) : x_in.dtypes[j] = "datetime64[ns]"}
            IN  /\ \A j \in temporal : \A sfx \in DateSuffixes :
                      has(DerivedName(x_in, j, sfx))
                /\ \A k \in 1..NCols(w) :
                      \/ \E j \in 1..NCols(x_in) : x_in.columns[j] = w.columns[k]
                      \/ \E j \in temporal : \E sfx \in DateSuffixes :
                            w.columns[k] = DerivedName(x_in, j, sfx)
                /\ x_heap[CallerRef].columns = x_in.columns

(***************************************************************************)
(* Claims about safe_groupby_agg, checked under SpecAggregate.             *)
(***************************************************************************)
\* the columns of the reducer map that the table has and that are not
\* temporal
Survivors(d, agg_dict) ==
    {k \in 1..Len(agg_dict) :
        /\ HasColumn(d, agg_dict[k].col)
        /\ d.dtypes[ColumnIndex(d, agg_dict[k].col)] # "datetime64[ns]"}

\* C15: safe_groupby_agg never throws; the frame it returns aggregates only
\* columns of the map that the table has and that are not temporal; it
\* returns None when no column of the map survives and when the group
\* column is absent.
C15_SafeGroupbyAggNeverThrows ==
    g_pc = "returned" =>
        /\ ~g_out.raised
        /\ g_out.value.kind = "frame" =>
              /\ \A k \in 2..Len(g_out.value.columns) :
                    \E m \in Survivors(g_df, g_agg) : g_agg[m].col = g_out.value.columns[k]
              /\ Len(g_out.value.columns) = 1 + Cardinality(Survivors(g_df, g_agg))
        /\ Survivors(g_df, g_agg) = {} => g_out.value = PyNoneValue
        /\ ~HasColumn(g_df, g_group) => g_out.value = PyNoneValue

\* C15 witness: the only column the map names is temporal, the group column
\* exists, and the call has returned None.
C15_Witness ==
    /\ g_pc = "returned"
    /\ Len(g_agg) = 1
    /\ g_agg # NotAMapping
    /\ HasColumn(g_df, g_agg[1].col)
    /\ g_df.dtypes[ColumnIndex(g_df, g_agg[1].col)] = "datetime64[ns]"
    /\ HasColumn(g_df, g_group)
    /\ g_out = [raised |-> FALSE, value |-> PyNoneValue]

(***************************************************************************)
(* Claims about the request classifier, checked under SpecClassify.        *)
(***************************************************************************)
\* the reply has an intent field that holds a tag of the valid set, in any
\* letter case, in JSON text the classifier can parse
UsableIntent(reply) ==
    /\ ~reply.content_none
    /\ JsonLoadsOk(reply)
    /\ reply.json.kind = "object"
    /\ reply.json.has_intent
    /\ reply.json.intent.t = "str"
    /\ LowerTag(reply.json.intent.s) \in ValidCategories

\* C17: classify returns a tag of the valid set for every reply, and
\* statistical when the reply cannot be parsed, has no usable intent field
\* or carries a tag outside the set.
C17_ClassifierTagValid ==
    c_pc = "returned" =>
        /\ c_tag \in {"visualization", "transformation", "statistical", "query"}
        /\ ~UsableIntent(c_reply) => c_tag = "statistical"

\* C17 witness: a reply that parses and carries a tag outside the set, and
\* a returned category of statistical.
C17_Witness ==
    /\ c_pc = "returned"
    /\ JsonLoadsOk(c_reply)
    /\ c_reply.json.has_intent
    /\ c_reply.json.intent = Intent("str", "chat")
    /\ c_tag = "statistical"

(***************************************************************************)
(* Claims about the synthesizer's parsing, checked under SpecParse.        *)
(***************************************************************************)
\* the text is wrapped in a code fence, whitespace around it aside
Wrapped(chars) ==
    LET t == Strip(chars)
    IN  Len(t) >= 2 * Len(Fence) /\ StartsWith(t, Fence) /\ EndsWith(t, Fence)

\* C18: the implementation stored for a field that is wrapped in a code
\* fence neither starts nor ends with a fence marker, whitespace or a
\* newline around the fenced text or not.
C18_FenceRemoved ==
    (f_pc = "returned" /\ Wrapped(f_text)) =>
        /\ ~StartsWith(f_code, Fence)
        /\ ~EndsWith(f_code, Fence)

\* the descriptors of the reply that are fine on their own, in reply order
FineOnTheirOwn ==
    SortedIdx({i \in 1..Len(p_configs) : p_configs[i] = "ok"})

\* C19: a presentation stage called with a non-empty table never raises
\* because of one descriptor, and once it has returned it has emitted
\* exactly the descriptors that are fine on their own, in reply order.
C19_FailingDescriptorOnlySkipped ==
    /\ p_pc # "raised"
    /\ (p_pc = "returned" => p_out = FineOnTheirOwn)

\* the two identifiers the request determines
ExpectedSource ==
    IF req.relevantData # <<>> THEN Head(req.relevantData).id ELSE req.activeSheetId

ExpectedTarget ==
    IF req.explicitTargetSheetId # "" THEN req.explicitTargetSheetId
    ELSE req.activeSheetId

\* every descriptor of the list carries the two identifiers
CarryIds(configs) ==
    \A i \in 1..Len(configs) :
        /\ configs[i].sourceSheetId = ExpectedSource
        /\ configs[i].targetSheetId = ExpectedTarget

NumericNames == {q_df.columns[j] : j \in {k \in 1..NCols(q_df) : q_df.dtypes[k] \in {"int64", "float64"}}}

\* C21: correlation_data is null whenever the table has fewer than two
\* numeric columns; when it is present it holds exactly one triple for every
\* ordered pair of numeric columns, self-pairs included, and nothing else.
C21_CorrelationDataShape ==
    q_pc = "returned" =>
        /\ (Cardinality(NumericNames) < 2 => q_corr = PyNone)
        /\ (q_corr # PyNone =>
              /\ Len(q_corr.s) = Cardinality(NumericNames) * Cardinality(NumericNames)
              /\ \A a \in NumericNames, b \in NumericNames :
                    Cardinality({c \in 1..Len(q_corr.s) :
                                    q_corr.s[c].x = a /\ q_corr.s[c].y = b}) = 1)

\* C21 witness: a table with one numeric and one text column has been
\* profiled and its correlation_data is null.
C21_Witness ==
    /\ q_pc = "returned"
    /\ Cardinality(NumericNames) = 1
    /\ NCols(q_df) = 2
    /\ q_corr = PyNone

\* the magnitude of a correlation value
Magnitude(value) == IF value.milli < 0 THEN 0 - value.milli ELSE value.milli

\* the triples of distinct columns whose magnitude exceeds 0.7
StrongTriples ==
    {c \in 1..Len(q_corr.s) :
        /\ q_corr.s[c].x # q_corr.s[c].y
        /\ ~q_corr.s[c].value.nan
        /\ Magnitude(q_corr.s[c].value) > 700}

\* the unordered pair of columns of a triple
PairOf(triple) == {triple.x, triple.y}

\* C25: the correlation insights report pairs of distinct numeric columns
\* with |r| > 0.7, at most three, and no pair left unreported has a greater
\* |r| than a reported one.
C25_TopThreeByMagnitude ==
    (q_pc = "returned" /\ q_corr # PyNone) =>
        /\ Len(q_insights) <= 3
        /\ \A r \in 1..Len(q_insights) :
              \E c \in StrongTriples : q_corr.s[c] = q_insights[r]
        /\ \A c \in StrongTriples :
              (\A r \in 1..Len(q_insights) : PairOf(q_insights[r]) # PairOf(q_corr.s[c]))
                  => \A r \in 1..Len(q_insights) :
                        Magnitude(q_insights[r].value) >= Magnitude(q_corr.s[c].value)

\* the positions of analyze, in the order the claim gives the stages
StageOrder ==
    <<"start", "ingested", "profiled", "synthesized", "executed", "charted",
      "tabled", "interpreted", "responded">>

\* one step of analyze respects the order of the stages
OrderedStep ==
    /\ (pc \in {"failed", "responded"} => avars' = avars)
    /\ (pc' # pc =>
          \E k \in 1..(Len(StageOrder) - 1) :
              pc = StageOrder[k] /\ pc' \in {StageOrder[k + 1], "failed"})
    /\ (exec_count' # exec_count =>
          pc = "synthesized" /\ exec_count = 0 /\ exec_count' = 1)
    /\ (llm_calls' # llm_calls =>
          /\ llm_calls' = llm_calls + 1
          /\ pc \in {"profiled", "executed", "charted", "tabled"})
    /\ (response' # response => pc = "interpreted" /\ pc' = "responded")

\* C22: in every run of analyze the stages occur in the order normalize,
\* profile, synthesize, execute, chart generation, table generation,
\* interpretation, respond: each step moves to the next stage or to failure,
\* no stage runs twice, nothing runs after a failure, and a response is
\* built only from the completed interpretation.
C22_StagesInOrder == [][OrderedStep]_vars

\* C22 witness: a run has gone through normalize, profile, synthesize,
\* execute and chart generation in this order, each once, and has ended in
\* table generation, the stage that failed, with nothing run after it.
C22_Witness ==
    /\ pc = "failed"
    /\ failure.stage = "tables"
    /\ profile = GenerateDataProfile(CreateDataframeFromRaw(SourceData(req)).df)
    /\ package.has_impl
    /\ exec_count = 1
    /\ llm_calls = 2
    /\ Len(charts) > 0
    /\ text = ""
    /\ response = NoResponse

\* the table the normalizer made of the primary sheet of the request
NormalizedTable == CreateDataframeFromRaw(SourceData(req)).df

\* C23: no presentation stage modifies the normalized table: once analyze
\* has ingested the sheet, the table every later stage reads is the one the
\* normalizer made, and the response counts the rows and columns of that one.
C23_TableNotModifiedByPresentation ==
    /\ (pc # "start" => df = NormalizedTable)
    /\ (pc = "responded" =>
          /\ response.rows_analyzed = NRows(NormalizedTable)
          /\ response.columns_analyzed = NCols(NormalizedTable))

\* column j of the table returned has a non-null cell, and every non-null
\* cell of it is a number or a numeric-shaped string
NumericShaped(j) ==
    /\ \E i \in 1..NRows(n_df) : ~IsNull(n_df.rows[i][j])
    /\ \A i \in 1..NRows(n_df) :
          LET c == n_df.rows[i][j]
          IN  IsNull(c) \/ IsNumberCell(c) \/ (c.t = "str" /\ IsDigit(DropFirstDot(c.s)))

\* C24: a column of the table returned whose name no other column bears and
\* whose non-null cells are all numbers or numeric-shaped strings has a
\* numeric dtype, also when some of its cells are null.
C24_NumericDespiteNulls ==
    n_pc = "returned" =>
        \A j \in 1..NCols(n_df) :
            (NameCount(n_df, j) = 1 /\ NumericShaped(j)) =>
                n_df.dtypes[j] \in {"int64", "float64"}

\* C26: when the first procedure fails during execution, analyze obtains a
\* corrected procedure (a second call of the reasoning capability) and
\* executes it exactly once; if the corrected procedure produces result_df,
\* analyze returns a transformation response built from it, not an error.
C26_CorrectedProcedureRuns ==
    (t_pc \in {"responded", "failed"} /\ t_in.first \notin {"frame", "series"}) =>
        /\ t_calls = 2
        /\ t_execs = 2
        /\ (t_in.fixed \in {"frame", "series"} =>
              /\ t_out.kind = "response"
              /\ t_out.operationType = "transformation"
              /\ t_out.built_from = "fixed")

\* C27: when the generated code defines a callable analyze_data and calling
\* it on the table returns a value, that value is the analysis result the
\* answer is formulated from.
C27_FunctionResultPassedOn ==
    (b_pc = "responded" /\ b_out.branch = "from_result"
       /\ b_in.code \in {"function", "function_and_response_data"}) =>
        b_out.passed = "value_of_analyze_data"

\* C28: when the decision reply is no_code, no code is generated or
\* executed, the answer comes from the direct branch and executed_code is
\* false; code is executed only when the reply is needs_code.
C28_NoCodeMeansNoExecution ==
    /\ (b_pc = "responded" /\ Strip(b_in.decision) = <<"n", "o", "_", "c", "o", "d", "e">>) =>
          /\ b_execs = 0
          /\ b_calls = 2
          /\ b_out.branch = "direct"
          /\ b_out.executed_code = FALSE
    /\ (b_execs > 0 =>
          Strip(b_in.decision) = <<"n", "e", "e", "d", "s", "_", "c", "o", "d", "e">>)

\* C29: every data point transform_data_for_visualization returns is made of
\* a row or a group of rows of the source data it was given, and bears the
\* x value of those rows (or the text standing for a null one); no point is
\* invented, also when the shaping fails.
C29_PointsDerivedFromRows ==
    v_pc = "returned" =>
        \A p \in 1..Len(v_out) :
            /\ v_out[p].rows # {}
            /\ v_out[p].rows \subseteq 1..Len(v_in.rows)
            /\ \A i \in v_out[p].rows :
                  \/ PyStr(v_in.rows[i][1]) = PyStr(v_out[p].name)
                  \/ (v_in.rows[i][1] = PyNone /\ PyStr(v_out[p].name) = <<"U", "n", "k", "n", "o", "w", "n">>)

\* C30: the error analyze raises for an empty dataset reaches the caller
\* with the status it was raised with, 400, and not as a server error.
C30_EmptyDatasetKeepsStatus ==
    (pc = "failed" /\ failure.stage = "ingest" /\ failure.raised.type = "HTTPException") =>
        /\ failure.status = failure.raised.status
        /\ failure.status = 400
        /\ failure.status # 500

================================================================
